---- MODULE Spec2Model ----
(***************************************************************************)
(* State-machine model of the steam-bot settlement engine (class Instance  *)
(* and the helpers of utils): the deposit and withdrawal workflows, the    *)
(* database claim, the marketplace (OPSkins) sourcing and listing, and the *)
(* handler of the trade manager's sentOfferChanged event.                  *)
(*                                                                         *)
(* Every await of the source is a step boundary: an action is the code     *)
(* that runs between two awaits of one task.  SQL statements are atomic.   *)
(* Results of external calls (Steam, OPSkins) are chosen with \E.          *)
(***************************************************************************)
EXTENDS Integers, Sequences, FiniteSets, TLC

----------------------------------------------------------------------------
(* Bounds of the model *)

\* number of merchant processes that receive the notifications
NumMerchants == 2
\* notifications of the trade delivered, to whichever merchants
MaxNotifications == 2
\* process restarts (pollData restored from its file) per behaviour
MaxRestarts == 1

----------------------------------------------------------------------------
(* Program constants *)

\* SQL NULL of a timestamp, id or reference column
NULL == 0
\* merchant_steam_id of a withdrawal nobody has claimed (the SQL tests "= 1")
UNCLAIMED == 1
MAX_WITHDRAWAL_SIZE == 3
RPM == 20

\* enum TradeOfferState
Invalid == 1
Active == 2
Accepted == 3
Countered == 4
Expired == 5
Cancelled == 6
Declined == 7
InvalidItems == 8
CreatedNeedsConfirmation == 9
CanceledBySecondFactor == 10
InEscrow == 11

TradeOfferState == Invalid..InEscrow

COMPLETABLE_STATES == {Active, CreatedNeedsConfirmation}

----------------------------------------------------------------------------
(* Universe *)

\* SteamID64 of the merchant accounts; none equals the UNCLAIMED sentinel
Merchants == {100 + i : i \in 1..NumMerchants}
TradeIds == {1, 2, 3, 4}
Users == {"u1", "u2"}
Kinds == {"deposit", "withdrawal"}
\* the trades a behaviour can be about: deposit 3 and withdrawal 3 have no item
\* row, withdrawal 4 has more items than MAX_WITHDRAWAL_SIZE
Subjects == ({"deposit"} \X {1, 2, 3}) \cup ({"withdrawal"} \X TradeIds)

\* failure_details of a row that never failed
NoDetails == "<null>"

----------------------------------------------------------------------------
(* State *)

VARIABLES
  listener,             \* listener[m]: the notification connection of merchant m, [pc, errors]
  subject,              \* the trade the notifications of this run are about: <<kind, id>>
  steamID,              \* steamID[m]: this._user.steamID is set (merchant m is connected)
  clock,                \* the time of the last timestamp taken (CURRENT_TIMESTAMP, new Date())
  users,                \* table users: steam_id -> [trade_link_url, balance]
  trade_deposits,       \* table trade_deposits: id -> row
  trade_withdrawals,    \* table trade_withdrawals: id -> row
  pc,                   \* pc[m]: where merchant m's startDeposit/startWithdrawal task stands
  loc,                  \* loc[m]: the local variables of that task
  delivered,            \* how many notifications of the subject the merchants were handed
  offers,               \* the trade offers transmitted to the platform, by offer id
  pollData,             \* the trade manager's last known state of each sent offer (0: none)
  pollDataFile,         \* the pollData-<account>.json file
  restarts,             \* process restarts so far
  tasks,                \* the running sentOfferChanged handlers
  opskins,              \* the marketplace: [key, priceData, cache]
  listed,               \* the prices last sent to the marketplace (listItems, editPrices)
  inventory,            \* the units in a merchant's platform inventory, where a run follows them
  session               \* a merchant's web session: [hasExpired, logOns], where a run follows it

vars == <<subject, listener, inventory, session, steamID, clock, users, trade_deposits, trade_withdrawals, pc, loc,
          delivered, offers, pollData, pollDataFile, restarts, tasks, opskins, listed>>

dbVars == <<users, trade_deposits, trade_withdrawals>>
platformVars == <<offers, pollData, pollDataFile>>
marketVars == <<opskins, listed>>

Row(user, total, bonus, names, unclaimed) ==
  [ acknowledged_at |-> NULL, merchant_steam_id |-> unclaimed, offered_at |-> NULL,
    steam_offer_id |-> NULL, completed_at |-> NULL, failed_at |-> NULL,
    failure_details |-> NoDetails, cancelled_at |-> NULL, app_id |-> "app",
    user_steam_id |-> user, _total |-> total, _bonus |-> bonus, _item_names |-> names ]

\* table trade_deposit_items: the asset ids of each deposit
trade_deposit_items ==
  [id \in TradeIds |-> CASE id = 1 -> {"a1", "a2"} [] id = 2 -> {"a3"} [] id = 3 -> {}
                          [] OTHER -> {"a4"}]

\* this._config.app_id of every merchant
ConfigAppId == "app"

\* the table of the subject's kind
Table(kind) == IF kind = "deposit" THEN trade_deposits ELSE trade_withdrawals

\* this._sessionHasExpired (line 30) and the webLogOn requests the platform has
\* not answered yet
InitSession == [hasExpired |-> FALSE, logOns |-> 0]

\* the variable userDetails before a profile fetch has answered
NoUserDetails == [probation |-> FALSE, escrowDays |-> -1]

\* the notification connection of a process whose _startListening has run
\* through (lines 156-193): subscribed to both channels, handlers attached
Listening == [m \in Merchants |-> [pc |-> "listening", errors |-> 0]]

\* the locals of a task that has not started
LocInit ==
  [ msg |-> NoDetails, items |-> <<>>, offer |-> NULL, balance |-> 0, names |-> <<>>,
    i |-> 0, searches |-> 0, purchases |-> <<>>, results |-> <<>>, k |-> 0, phase |-> 0,
    attempt |-> 0, fetched |-> {}, userDetails |-> NoUserDetails ]

----------------------------------------------------------------------------
(* utils: errMessage / fail *)

Err(text) == [type |-> "Error", text |-> text]
Str(text) == [type |-> "string", text |-> text]
\* any other value, by the members its JSON text holds
Obj(text) == [type |-> "object", text |-> text]

\* the message when every e goes through JSON.stringify
FailMessageJson(e) == "{" \o e.text \o "}"

\* the message fail() stores: e.message of an Error, a string itself, the JSON
\* text of anything else
FailMessage(e) ==
  CASE e.type = "Error"  -> e.text
    [] e.type = "string" -> e.text
    [] OTHER             -> "{" \o e.text \o "}"

\* the update without its WHERE clause
FailUpdateEveryRow(rows, id, message, now) ==
  [r \in DOMAIN rows |-> [rows[r] EXCEPT !.failed_at = now, !.failure_details = message]]

\* UPDATE <table> SET failed_at = $1, failure_details = $2 WHERE id = $3
FailUpdate(rows, id, message, now) ==
  [r \in DOMAIN rows |->
     IF r = id THEN [rows[r] EXCEPT !.failed_at = now, !.failure_details = message]
     ELSE rows[r]]

fail(table, id, e) ==
  /\ clock' = clock + 1
  /\ IF table = "trade_deposits"
       THEN /\ trade_deposits' = FailUpdate(trade_deposits, id, FailMessage(e), clock + 1)
            /\ UNCHANGED trade_withdrawals
       ELSE /\ trade_withdrawals' = FailUpdate(trade_withdrawals, id, FailMessage(e), clock + 1)
            /\ UNCHANGED trade_deposits

failDeposit(id, e) == fail("trade_deposits", id, e)
failWithdrawal(id, e) == fail("trade_withdrawals", id, e)

----------------------------------------------------------------------------
(* Task bookkeeping *)

Goto(m, label) == pc' = [pc EXCEPT ![m] = label]
\* the task returns: its locals are gone
Return(m) == /\ pc' = [pc EXCEPT ![m] = "idle"]
             /\ loc' = [loc EXCEPT ![m] = LocInit]
\* the task's promise rejects (or never settles): nothing of it runs again
Die(m) == /\ pc' = [pc EXCEPT ![m] = "dead"]
          /\ loc' = [loc EXCEPT ![m] = LocInit]
\* the promise of _buyPlaceholderItems never settles (its callback threw): the
\* task waits for ever, with what it has bought
Hang(m) == /\ pc' = [pc EXCEPT ![m] = "hung"]
           /\ loc' = [loc EXCEPT ![m] = [LocInit EXCEPT !.purchases = loc[m].purchases]]
\* go on to the failDeposit/failWithdrawal call with this detail
ToFail(m, e) == /\ pc' = [pc EXCEPT ![m] = "fail"]
                /\ loc' = [loc EXCEPT ![m].msg = e]

Kind == subject[1]
Id == subject[2]

\* lines 166-187, the notification listener: merchant m is handed a
\* notification of the subject and, after the random wait, startDeposit or
\* startWithdrawal runs with the payload
Notified(m) ==
  /\ pc[m] \in {"idle", "dead", "hung"}
  /\ delivered < MaxNotifications
  /\ delivered' = delivered + 1

----------------------------------------------------------------------------
(* startDeposit *)

\* the condition without "acknowledged_at IS NULL"
DepositClaimableAcknowledged(row, app) == row.app_id = app

\* WHERE id = $2 AND app_id = $3 AND acknowledged_at IS NULL
DepositClaimable(row, app) == row.app_id = app /\ row.acknowledged_at = NULL

\* UPDATE trade_deposits SET acknowledged_at = CURRENT_TIMESTAMP, merchant_steam_id = $1
\* WHERE ... RETURNING *
AcknowledgeDeposit(rows, id, merchant, app, now) ==
  [r \in DOMAIN rows |->
     IF r = id /\ DepositClaimable(rows[r], app)
       THEN [rows[r] EXCEPT !.acknowledged_at = now, !.merchant_steam_id = merchant]
       ELSE rows[r]]

\* lines 195-217: the connection test and the conditional update
StartDeposit(m) ==
  /\ Kind = "deposit" /\ Notified(m)
  /\ IF ~steamID[m]
       THEN Return(m) /\ UNCHANGED <<clock, trade_deposits>>
       ELSE IF Id \in DOMAIN trade_deposits /\ DepositClaimable(trade_deposits[Id], ConfigAppId)
         THEN /\ trade_deposits' =
                   AcknowledgeDeposit(trade_deposits, Id, m, ConfigAppId, clock + 1)
              /\ clock' = clock + 1
              /\ Goto(m, "d_user") /\ UNCHANGED loc
         ELSE Return(m) /\ UNCHANGED <<clock, trade_deposits>>
  /\ UNCHANGED <<subject, listener, inventory, session, steamID, users, trade_withdrawals, platformVars, restarts, tasks,
                 marketVars>>

\* lines 221-237: the user row; no trade link fails the deposit
DepositUser(m) ==
  /\ Kind = "deposit" /\ pc[m] = "d_user"
  /\ LET user == users[trade_deposits[Id].user_steam_id] IN
       IF ~user.trade_link_url
         THEN ToFail(m, Str("Please set your Trade URL to proceed"))
         ELSE Goto(m, "d_items") /\ UNCHANGED loc
  /\ UNCHANGED <<subject, listener, inventory, session, steamID, clock, dbVars, delivered, platformVars, restarts, tasks,
                 marketVars>>

\* what getUserInventoryContents can answer for a user asked for these assets:
\* everything and more, or one of them missing
UserInventories(assetIds) ==
  {assetIds \cup {"x9"}} \cup {assetIds \ {a} : a \in assetIds}

NotInInventory == Err("One or more requested items do not exist in inventory")

\* lines 239-246: db.many rejects when the deposit has no item row
DepositItems(m) ==
  /\ Kind = "deposit" /\ pc[m] = "d_items"
  /\ IF trade_deposit_items[Id] = {}
       THEN Die(m)
       ELSE Goto(m, "d_inv") /\ loc' = [loc EXCEPT ![m].k = 1]
  /\ UNCHANGED <<subject, listener, inventory, session, steamID, clock, dbVars, delivered, platformVars, restarts, tasks,
                 marketVars>>

\* the items _fetchInventoryItems ends with after its nested retry call returned:
\* the retry's result is not assigned, so items is still []
ItemsAfterRetry(found) == {}

\* _fetchInventoryItems, lines 919-950, as called at line 251; loc.k = 1 is the
\* outer call (retry = true), loc.k = 2 the nested one (retry = false)
DepositInventory(m) ==
  /\ Kind = "deposit" /\ pc[m] = "d_inv"
  /\ LET assetIds == trade_deposit_items[Id] IN
     \/ \E inv \in UserInventories(assetIds) :
          LET found == inv \cap assetIds
              items == IF loc[m].k = 1 THEN found ELSE ItemsAfterRetry(found)
              \* the items of the nested call, which it returns when complete
              l == [loc[m] EXCEPT !.fetched = IF loc[m].k = 2 THEN found ELSE @] IN
            IF Cardinality(found) # Cardinality(assetIds)
                 \/ Cardinality(items) # Cardinality(assetIds)
              THEN /\ Goto(m, "fail")
                   /\ loc' = [loc EXCEPT ![m] = [l EXCEPT !.msg = NotInInventory]]
              ELSE /\ Goto(m, "d_details")
                   /\ loc' = [loc EXCEPT ![m] = [l EXCEPT !.items = items, !.k = 1]]
     \/ Goto(m, "d_inv_reconnect") /\ UNCHANGED loc
  /\ UNCHANGED <<subject, listener, inventory, session, steamID, clock, dbVars, delivered, platformVars, restarts, tasks,
                 marketVars>>

\* line 931-936: after the session refresh the outer call retries once, the
\* nested call rethrows the inventory error
DepositInventoryReconnect(m) ==
  /\ Kind = "deposit" /\ pc[m] = "d_inv_reconnect"
  /\ IF loc[m].k = 1
       THEN Goto(m, "d_inv") /\ loc' = [loc EXCEPT ![m].k = 2]
       ELSE ToFail(m, Err("inventory error"))
  /\ UNCHANGED <<subject, listener, inventory, session, steamID, clock, dbVars, delivered, platformVars, restarts, tasks,
                 marketVars>>

\* what getUserDetails can answer about the counterparty
EscrowDays == {0, 3}
UserDetails == [probation : BOOLEAN, escrowDays : EscrowDays]

\* the tests without the one of escrowDays
DepositRestrictionProbationOnly(details) ==
  IF details.probation
    THEN Str("You are not currently able to trade. Please consult your Steam profile for more information.")
    ELSE Str("")

\* lines 283-301
DepositRestriction(details) ==
  IF details.probation
    THEN Str("You are not currently able to trade. Please consult your Steam profile for more information.")
    ELSE IF details.escrowDays # 0
      THEN Str("Please enable mobile authenticator and wait for "
               \o ToString(details.escrowDays) \o " days.")
      ELSE Str("")

\* lines 260-301: the profile fetch, once more after a session refresh, then
\* the probation and escrow tests
DepositDetails(m) ==
  /\ Kind = "deposit" /\ pc[m] = "d_details"
  /\ \/ \E details \in UserDetails :
          IF DepositRestriction(details).text # ""
            THEN /\ Goto(m, "fail")
                 /\ loc' = [loc EXCEPT ![m].msg = DepositRestriction(details),
                                       ![m].userDetails = details]
            ELSE Goto(m, "d_send") /\ loc' = [loc EXCEPT ![m].userDetails = details]
     \/ IF loc[m].k = 1
          THEN Goto(m, "d_details_reconnect") /\ UNCHANGED loc
          ELSE ToFail(m, Str("We were unable to retrieve your details. "
                 \o "Please try creating a new deposit. Error: " \o "details error"))
  /\ UNCHANGED <<subject, listener, inventory, session, steamID, clock, dbVars, delivered, platformVars, restarts, tasks,
                 marketVars>>

\* a refresh after which the fetch counts as a first attempt again
DepositDetailsReconnectAgain(m) ==
  /\ Kind = "deposit" /\ pc[m] = "d_details_reconnect"
  /\ Goto(m, "d_details") /\ UNCHANGED loc
  /\ UNCHANGED <<subject, listener, inventory, session, steamID, clock, dbVars, delivered, platformVars,
                 restarts, tasks, marketVars>>

\* line 268: await this._reconnectToSteam()
DepositDetailsReconnect(m) ==
  /\ Kind = "deposit" /\ pc[m] = "d_details_reconnect"
  /\ Goto(m, "d_details") /\ loc' = [loc EXCEPT ![m].k = 2]
  /\ UNCHANGED <<subject, listener, inventory, session, steamID, clock, dbVars, delivered, platformVars, restarts, tasks,
                 marketVars>>

\* offer.send() succeeded: the offer exists on the platform in this state and
\* the manager notes it in pollData
Transmit(m, kind, id, state, receive, give) ==
  /\ clock' = clock + 1
  /\ offers' = Append(offers, [sender |-> m, state |-> state, created |-> clock + 1,
                               itemsToReceive |-> receive, itemsToGive |-> give,
                               kind |-> kind, trade |-> id])
  /\ pollData' = Append(pollData, state)
  /\ pollDataFile' = Append(pollDataFile, 0)
  /\ loc' = [loc EXCEPT ![m].offer = Len(offers) + 1]

\* lines 303-318: the offer is sent; an error fails the deposit
DepositSend(m) ==
  /\ Kind = "deposit" /\ pc[m] = "d_send"
  /\ \/ /\ Transmit(m, "deposit", Id, Active, loc[m].items, {})
        /\ Goto(m, "d_mark")
     \/ /\ ToFail(m, Err("send error"))
        /\ UNCHANGED <<clock, platformVars>>
  /\ UNCHANGED <<subject, listener, inventory, session, steamID, dbVars, delivered, restarts, tasks, marketVars>>

\* the update without "offered_at = $1"
MarkOfferedIdOnly(rows, id, offer, created) ==
  [r \in DOMAIN rows |->
     IF r = id THEN [rows[r] EXCEPT !.steam_offer_id = offer] ELSE rows[r]]

\* UPDATE <table> SET offered_at = $1, steam_offer_id = $2 WHERE id = $3
MarkOffered(rows, id, offer, created) ==
  [r \in DOMAIN rows |->
     IF r = id THEN [rows[r] EXCEPT !.offered_at = created, !.steam_offer_id = offer]
     ELSE rows[r]]

\* lines 311-314
DepositMarkOffered(m) ==
  /\ Kind = "deposit" /\ pc[m] = "d_mark"
  /\ trade_deposits' = MarkOffered(trade_deposits, Id, loc[m].offer,
                                   offers[loc[m].offer].created)
  /\ Return(m)
  /\ UNCHANGED <<subject, listener, inventory, session, steamID, clock, users, trade_withdrawals, delivered, platformVars,
                 restarts, tasks, marketVars>>

\* every "return await failDeposit(...)" of startDeposit
DepositFail(m) ==
  /\ Kind = "deposit" /\ pc[m] = "fail"
  /\ failDeposit(Id, loc[m].msg)
  /\ Return(m)
  /\ UNCHANGED <<subject, listener, inventory, session, steamID, users, delivered, platformVars, restarts, tasks,
                 marketVars>>

startDeposit(m) ==
  \/ StartDeposit(m) \/ DepositUser(m) \/ DepositItems(m) \/ DepositInventory(m)
  \/ DepositInventoryReconnect(m) \/ DepositDetails(m) \/ DepositDetailsReconnect(m)
  \/ DepositSend(m) \/ DepositMarkOffered(m) \/ DepositFail(m)

----------------------------------------------------------------------------
(* startWithdrawal: the claim *)

\* table trade_withdrawal_items: the asset rows of each withdrawal
trade_withdrawal_items ==
  [id \in TradeIds |-> CASE id = 1 -> <<"w1", "w2">> [] id = 2 -> <<"w3">> [] id = 3 -> <<>>
                          [] OTHER -> <<"w4", "w5", "w6", "w7">>]

\* what opskins.getBalance can answer
Balances == {300, 1000}

\* lines 455-465 and 1266-1273: the connection test, then the balance query of
\* _lockWithdrawal; an error of the query ends the task
StartWithdrawal(m) ==
  /\ Kind = "withdrawal" /\ Notified(m)
  /\ IF ~steamID[m]
       THEN Return(m)
       ELSE \/ \E balance \in Balances :
                 Goto(m, "w_lock") /\ loc' = [loc EXCEPT ![m].balance = balance]
            \/ Return(m)
  /\ UNCHANGED <<subject, listener, inventory, session, steamID, clock, dbVars, platformVars, restarts, tasks, marketVars>>

\* the condition without "merchant_steam_id = 1"
WithdrawalLockableClaimed(row, balance, app) == row._total <= balance /\ row.app_id = app

\* the condition without "_total <= $3"
WithdrawalLockableAnyBalance(row, balance, app) ==
  row.merchant_steam_id = UNCLAIMED /\ row.app_id = app

\* WHERE id = $1 AND merchant_steam_id = 1 AND _total <= $3 AND app_id = $4
WithdrawalLockable(row, balance, app) ==
  row.merchant_steam_id = UNCLAIMED /\ row._total <= balance /\ row.app_id = app

\* the update with "WHERE id = $1" alone
LockWithdrawalAnyRow(rows, id, merchant, balance, app) ==
  [r \in DOMAIN rows |->
     IF r = id THEN [rows[r] EXCEPT !.merchant_steam_id = merchant] ELSE rows[r]]

\* UPDATE trade_withdrawals SET merchant_steam_id = $2 WHERE ... RETURNING id
LockWithdrawal(rows, id, merchant, balance, app) ==
  [r \in DOMAIN rows |->
     IF r = id /\ WithdrawalLockable(rows[r], balance, app)
       THEN [rows[r] EXCEPT !.merchant_steam_id = merchant]
       ELSE rows[r]]

\* lines 1274-1285 and 466-469
WithdrawalLock(m) ==
  /\ Kind = "withdrawal" /\ pc[m] = "w_lock"
  /\ LET tradeId == IF /\ Id \in DOMAIN trade_withdrawals
                       /\ WithdrawalLockable(trade_withdrawals[Id], loc[m].balance, ConfigAppId)
                      THEN Id ELSE NULL IN
       /\ trade_withdrawals' =
            LockWithdrawal(trade_withdrawals, Id, m, loc[m].balance, ConfigAppId)
       /\ IF tradeId = NULL \/ tradeId # Id
            THEN Return(m)
            ELSE Goto(m, "w_select") /\ UNCHANGED loc
  /\ UNCHANGED <<subject, listener, inventory, session, steamID, clock, users, trade_deposits, delivered, platformVars,
                 restarts, tasks, marketVars>>

\* lines 471-480: SELECT * FROM trade_withdrawals WHERE id = $1 AND merchant_steam_id = $2
WithdrawalSelect(m) ==
  /\ Kind = "withdrawal" /\ pc[m] = "w_select"
  /\ IF Id \in DOMAIN trade_withdrawals /\ trade_withdrawals[Id].merchant_steam_id = m
       THEN /\ Goto(m, "w_user")
            /\ loc' = [loc EXCEPT ![m].names = trade_withdrawals[Id]._item_names,
                                  ![m].balance = 0]
       ELSE Return(m)
  /\ UNCHANGED <<subject, listener, inventory, session, steamID, clock, dbVars, delivered, platformVars, restarts, tasks,
                 marketVars>>

\* lines 484-500
WithdrawalUser(m) ==
  /\ Kind = "withdrawal" /\ pc[m] = "w_user"
  /\ LET user == users[trade_withdrawals[Id].user_steam_id] IN
       IF ~user.trade_link_url
         THEN ToFail(m, Str("Please set your Trade URL to proceed"))
         ELSE Goto(m, "w_details") /\ loc' = [loc EXCEPT ![m].k = 1]
  /\ UNCHANGED <<subject, listener, inventory, session, steamID, clock, dbVars, delivered, platformVars, restarts, tasks,
                 marketVars>>

\* lines 526-544
WithdrawalRestriction(details) ==
  IF details.probation
    THEN Str("You are not currently able to trade. Please consult your Steam profile for more information.")
    ELSE IF details.escrowDays # 0
      THEN Str("You are currently subject to a trade hold for "
               \o ToString(details.escrowDays) \o " days.")
      ELSE Str("")

\* lines 502-544
WithdrawalDetails(m) ==
  /\ Kind = "withdrawal" /\ pc[m] = "w_details"
  /\ \/ \E details \in UserDetails :
          IF WithdrawalRestriction(details).text # ""
            THEN /\ Goto(m, "fail")
                 /\ loc' = [loc EXCEPT ![m].msg = WithdrawalRestriction(details),
                                       ![m].userDetails = details]
            ELSE Goto(m, "w_items") /\ loc' = [loc EXCEPT ![m].userDetails = details]
     \/ IF loc[m].k = 1
          THEN Goto(m, "w_details_reconnect") /\ UNCHANGED loc
          ELSE ToFail(m, Str("You are not currently able to trade. "
                 \o "Please consult your Steam profile for more information. Error: "
                 \o "details error"))
  /\ UNCHANGED <<subject, listener, inventory, session, steamID, clock, dbVars, delivered, platformVars, restarts, tasks,
                 marketVars>>

\* line 510: await this._reconnectToSteam()
WithdrawalDetailsReconnect(m) ==
  /\ Kind = "withdrawal" /\ pc[m] = "w_details_reconnect"
  /\ Goto(m, "w_details") /\ loc' = [loc EXCEPT ![m].k = 2]
  /\ UNCHANGED <<subject, listener, inventory, session, steamID, clock, dbVars, delivered, platformVars, restarts, tasks,
                 marketVars>>

\* lines 546-570 and 698-704: db.many rejects when there is no item row; more
\* than MAX_WITHDRAWAL_SIZE rows fail the withdrawal; else _buyPlaceholderItems
\* starts, and resolves [] at once without a marketplace key
WithdrawalItems(m) ==
  /\ Kind = "withdrawal" /\ pc[m] = "w_items"
  /\ LET n == Len(trade_withdrawal_items[Id]) IN
       IF n = 0 THEN Die(m)
       ELSE IF n > MAX_WITHDRAWAL_SIZE
         THEN ToFail(m, Str("Please choose a maximum of "
                            \o ToString(MAX_WITHDRAWAL_SIZE) \o " items."))
         ELSE /\ Goto(m, IF opskins.key THEN "b_balance" ELSE "w_nobuy")
              /\ UNCHANGED loc
  /\ UNCHANGED <<subject, listener, inventory, session, steamID, clock, dbVars, delivered, platformVars, restarts, tasks,
                 marketVars>>

----------------------------------------------------------------------------
(* The marketplace: cached safe prices and listing prices *)

Names == {"A", "B"}

\* the elements of a sequence
Range(seq) == {seq[j] : j \in 1..Len(seq)}

Item(assetid, name) == [assetid |-> assetid, market_hash_name |-> name]

\* what getUserInventoryContents can answer for the bot's own inventory
MerchantInventories ==
  { <<>>, <<Item("i1", "A")>>, <<Item("i1", "A"), Item("i2", "B")>>,
    <<Item("i1", "A"), Item("i3", "A")>> }

\* useful bound of the query of _getDbCentPrices, in cents (base_price_usd <= 10000)
MaxCentPrice == 1000000

\* _getDbCentPrices(0, 10000), lines 1112-1131, over the rows of
\* steam_item_price_cache (base_price_usd kept in cents): null when no row
\* matches, else the map name -> cents of the rows with a positive price
getDbCentPrices(cache) ==
  LET rows == {n \in DOMAIN cache :
                 ~cache[n].blacklisted /\ cache[n].cents >= 0 /\ cache[n].cents <= MaxCentPrice}
  IN  [ null |-> rows = {},
        price |-> [n \in {r \in rows : cache[r].cents > 0} |-> cache[n].cents] ]

\* Math.ceil(a / b) for a >= 0, b > 0
CeilDiv(a, b) == (a + b - 1) \div b

\* the price without the safe price of an undervalued item
ListPriceNoFloor(op, sp) ==
  IF op.quantity <= 12 THEN CeilDiv(op.price * 105, 100) ELSE op.price

\* the price with the multiplier 1.05 whatever the quantity on sale
ListPriceAlwaysMarkup(op, sp) ==
  IF op.price * 100 <= sp * 65 THEN sp ELSE CeilDiv(op.price * 105, 100)

\* lines 991, 999-1001: the price one item is listed at, from the external
\* lowest price entry op = [price, quantity] and the safe price sp
ListPrice(op, sp) ==
  IF op.price * 100 <= sp * 65
    THEN sp
    ELSE IF op.quantity <= 12 THEN CeilDiv(op.price * 105, 100) ELSE op.price

\* lines 987-1003: the loop of _listItemsToOpskins over items[i..]; reading
\* opPriceData[key].quantity of a name without entry throws
RECURSIVE ListLoop(_, _, _, _, _, _)
ListLoop(items, i, acc, opPriceData, liimt, spPriceData) ==
  IF i > Len(items) \/ Len(acc) >= liimt
    THEN [threw |-> FALSE, listItems |-> acc]
    ELSE LET key == items[i].market_hash_name IN
      IF key \notin DOMAIN opPriceData
        THEN [threw |-> TRUE, listItems |-> acc]
        ELSE IF key \notin DOMAIN spPriceData
          THEN ListLoop(items, i + 1, acc, opPriceData, liimt, spPriceData)
          ELSE ListLoop(items, i + 1,
                 Append(acc, [assetid |-> items[i].assetid, name |-> key, via |-> "list",
                              price |-> ListPrice(opPriceData[key], spPriceData[key])]),
                 opPriceData, liimt, spPriceData)

\* _listItemsToOpskins, lines 969-1010: the items handed to opskins.listItems
\* (none when a query fails, the limit is not positive, or the loop throws)
ListItemsToOpskins(items) ==
  \/ UNCHANGED listed
  \/ \E liimt \in {0, 1, 2} :
       LET sp == getDbCentPrices(opskins.cache)
           r  == ListLoop(items, 1, <<>>, opskins.priceData, liimt, sp.price) IN
         IF liimt <= 0 \/ sp.null \/ r.threw \/ r.listItems = <<>>
           THEN UNCHANGED listed
           ELSE listed' = {r.listItems[j] : j \in 1..Len(r.listItems)}

\* line 872: the marketplace edits at most so many prices in one request
editMax == 500

Sale(id, name, price, last_updated) ==
  [id |-> id, name |-> name, price |-> price, last_updated |-> last_updated]

\* what getSales can answer: the bot's items on sale, with the time (seconds)
\* of their last price change, 0 when the price never changed
Sales ==
  { <<>>,
    <<Sale("s1", "A", 300, 400)>>,
    <<Sale("s1", "A", 300, 0)>>,
    <<Sale("s1", "A", 310, 4000), Sale("s2", "B", 300, 400)>>,
    <<Sale("s1", "A", 260, 400), Sale("s2", "A", 500, 400)>> }

\* Math.floor(Date.now() / 1000) at the runs of the job
Timestamps == {4000, 7600}

\* lines 895-898: has the sale been idle for an hour; a sale that never
\* changed price reads sales.list_time, a property the array does not have,
\* and the difference is NaN
IdleAnHour(sale, timestamp) ==
  sale.last_updated > 0 /\ timestamp - sale.last_updated >= 3600

\* lines 891-904: the loop of relistOpskinsItems over sales[i..]
RECURSIVE RelistLoop(_, _, _, _, _)
RelistLoop(sales, i, acc, opPriceData, timestamp) ==
  IF i > Len(sales) \/ Len(acc) = editMax
    THEN acc
    ELSE LET sale == sales[i] IN
      IF /\ IdleAnHour(sale, timestamp)
         /\ sale.name \in DOMAIN opPriceData
         /\ opPriceData[sale.name].price # sale.price
        THEN RelistLoop(sales, i + 1,
               Append(acc, [assetid |-> sale.id, name |-> sale.name, via |-> "edit",
                            price |-> opPriceData[sale.name].price - 1]),
               opPriceData, timestamp)
        ELSE RelistLoop(sales, i + 1, acc, opPriceData, timestamp)

\* relistOpskinsItems, lines 865-917: the hourly job; the prices handed to
\* opskins.editPrices (none without key, or when a query fails)
relistOpskinsItems ==
  /\ \/ UNCHANGED listed
     \/ /\ opskins.key
        /\ \E sales \in Sales, timestamp \in Timestamps :
             LET items == RelistLoop(sales, 1, <<>>, opskins.priceData, timestamp) IN
               IF items = <<>> THEN UNCHANGED listed ELSE listed' = Range(items)
  /\ UNCHANGED <<subject, listener, inventory, session, steamID, clock, dbVars, pc, loc, delivered, platformVars, restarts,
                 tasks, opskins>>

\* _listItemsToOpskins (lines 969-1010) on the items of an inventory
ListInventory ==
  /\ \E items \in MerchantInventories : items # <<>> /\ ListItemsToOpskins(items)
  /\ UNCHANGED <<subject, listener, inventory, session, steamID, clock, dbVars, pc, loc, delivered, platformVars, restarts,
                 tasks, opskins>>

----------------------------------------------------------------------------
(* The platform and the trade manager's polling *)

OfferIds == 1..Len(offers)

\* the states an offer can move to on the platform; the others are final
PlatformNext(state) ==
  CASE state = CreatedNeedsConfirmation -> {Active, Cancelled, CanceledBySecondFactor}
    [] state = Active -> {Accepted, Countered, Expired, Cancelled, Declined, InvalidItems,
                          InEscrow}
    [] state = InEscrow -> {Accepted}
    [] OTHER -> {}

\* the counterparty, the platform or time acts on an offer
PlatformStep(o) ==
  /\ \E s \in PlatformNext(offers[o].state) : offers' = [offers EXCEPT ![o].state = s]
  /\ UNCHANGED <<subject, listener, inventory, session, steamID, clock, dbVars, pc, loc, delivered, pollData, pollDataFile,
                 restarts, tasks, marketVars>>

\* a handler of sentOfferChanged that has just been called (lines 108-116)
Task(o, oldState) ==
  [ owner |-> offers[o].sender, offer |-> o, oldState |-> oldState,
    state |-> offers[o].state, deposit |-> offers[o].itemsToReceive # {},
    pc |-> "c_start", id |-> NULL, k |-> 0, items |-> <<>>, names |-> <<>> ]

\* a poll of the manager sees a sent offer in a state other than the one in
\* pollData: it emits sentOfferChanged(offer, oldState) and notes the new state;
\* an offer pollData does not hold is only noted
Poll(o) ==
  /\ offers[o].state # pollData[o]
  /\ pollData' = [pollData EXCEPT ![o] = offers[o].state]
  /\ tasks' = IF pollData[o] = 0 THEN tasks ELSE tasks \cup {Task(o, pollData[o])}
  /\ UNCHANGED <<subject, listener, inventory, session, steamID, clock, dbVars, pc, loc, delivered, offers, pollDataFile,
                 restarts, marketVars>>

\* the handler of 'pollData' (lines 95-102) has written the file
WritePollData ==
  /\ pollDataFile # pollData
  /\ pollDataFile' = pollData
  /\ UNCHANGED <<subject, listener, inventory, session, steamID, clock, dbVars, pc, loc, delivered, offers, pollData,
                 restarts, tasks, marketVars>>

\* merchant m's process stops and starts again: its running tasks are gone and
\* start() restores the manager's pollData from the file (lines 122-130); taken
\* once the merchant has sent an offer (before, it only ends the running tasks)
Restart(m) ==
  /\ restarts < MaxRestarts
  /\ \E o \in OfferIds : offers[o].sender = m
  /\ restarts' = restarts + 1
  /\ pollData' = [o \in OfferIds |->
                    IF offers[o].sender = m THEN pollDataFile[o] ELSE pollData[o]]
  /\ tasks' = {t \in tasks : t.owner # m}
  /\ pc' = [pc EXCEPT ![m] = IF @ = "idle" THEN @ ELSE "dead"]
  /\ loc' = [loc EXCEPT ![m] = LocInit]
  /\ UNCHANGED <<subject, listener, inventory, session, steamID, clock, dbVars, delivered, offers, pollDataFile,
                 marketVars>>

----------------------------------------------------------------------------
(* completeDeposit / completeWithdrawal: the handler of sentOfferChanged *)

\* lines 340-398 and 625-683: the failure recorded for a new offer state
\* ("" when the state is not a failure)
StateFailure(state) ==
  CASE state = Countered -> "A counter-offer was made. Counter-offers are not currently accepted."
    [] state = Expired -> "Trade offer expired"
    [] state = Cancelled -> "Trade offer cancelled"
    [] state = Declined -> "Trade offer declined"
    [] state = InvalidItems -> "Trade contained invalid items"
    [] state = CanceledBySecondFactor -> "Trade offer cancelled by second factor"
    [] OTHER -> ""

\* the handlers without the test of the previous state
CompletableAlways(oldState) == TRUE

\* lines 324, 610: is an event with this previous state acted upon
Completable(oldState) == oldState \in COMPLETABLE_STATES

\* SELECT * FROM <table> WHERE steam_offer_id = $1
RowsOfOffer(rows, o) == {r \in DOMAIN rows : rows[r].steam_offer_id = o}

Become(t, u) == tasks' = (tasks \ {t}) \cup {u}
Finish(t) == tasks' = tasks \ {t}

\* lines 321-338 and 607-623, then the dispatch on offer.state: db.one rejects
\* unless exactly one row carries the offer id
CompleteStart(t) ==
  /\ t.pc = "c_start"
  /\ LET found == RowsOfOffer(IF t.deposit THEN trade_deposits ELSE trade_withdrawals,
                              t.offer) IN
       IF ~Completable(t.oldState) \/ Cardinality(found) # 1
         THEN Finish(t)
         ELSE LET id == CHOOSE r \in found : TRUE IN
           IF StateFailure(t.state) # ""
             THEN Become(t, [t EXCEPT !.id = id, !.pc = "c_fail"])
             ELSE IF t.state = Accepted
               THEN Become(t, [t EXCEPT !.id = id,
                                        !.pc = IF t.deposit THEN "c_credit" ELSE "c_mark"])
               ELSE Finish(t)
  /\ UNCHANGED <<subject, listener, inventory, session, steamID, clock, dbVars, pc, loc, delivered, platformVars, restarts,
                 marketVars>>

CompleteFail(t) ==
  /\ t.pc = "c_fail"
  /\ fail(IF t.deposit THEN "trade_deposits" ELSE "trade_withdrawals", t.id,
          Str(StateFailure(t.state)))
  /\ Finish(t)
  /\ UNCHANGED <<subject, listener, inventory, session, steamID, users, pc, loc, delivered, platformVars, restarts,
                 marketVars>>

\* UPDATE users SET balance = balance + $1 + $2 WHERE steam_id = $4
CreditBalance(rows, user, total, bonus) ==
  [u \in DOMAIN rows |->
     IF u = user THEN [rows[u] EXCEPT !.balance = @ + total + bonus] ELSE rows[u]]

\* lines 400-417
CompleteCredit(t) ==
  /\ t.pc = "c_credit"
  /\ LET deposit == trade_deposits[t.id] IN
       users' = CreditBalance(users, deposit.user_steam_id, deposit._total, deposit._bonus)
  /\ Become(t, [t EXCEPT !.pc = "c_mark"])
  /\ UNCHANGED <<subject, listener, inventory, session, steamID, clock, trade_deposits, trade_withdrawals, pc, loc,
                 delivered, platformVars, restarts, marketVars>>

\* UPDATE <table> SET completed_at = $1 WHERE id = $2
MarkCompleted(rows, id, now) ==
  [r \in DOMAIN rows |-> IF r = id THEN [rows[r] EXCEPT !.completed_at = now] ELSE rows[r]]

\* lines 419-425 and 685-692; a deposit goes on to list the bot's free items
CompleteMark(t) ==
  /\ t.pc = "c_mark"
  /\ clock' = clock + 1
  /\ IF t.deposit
       THEN /\ trade_deposits' = MarkCompleted(trade_deposits, t.id, clock + 1)
            /\ UNCHANGED trade_withdrawals
            /\ IF steamID[offers[t.offer].sender]
                 THEN Become(t, [t EXCEPT !.pc = "c_inv", !.k = 1])
                 ELSE Finish(t)
       ELSE /\ trade_withdrawals' = MarkCompleted(trade_withdrawals, t.id, clock + 1)
            /\ UNCHANGED trade_deposits
            /\ Finish(t)
  /\ UNCHANGED <<subject, listener, inventory, session, steamID, users, pc, loc, delivered, platformVars, restarts,
                 marketVars>>

\* lines 427-440: the bot's inventory, fetched once more after a session refresh
CompleteInventory(t) ==
  /\ t.pc = "c_inv"
  /\ \/ \E items \in MerchantInventories :
          Become(t, [t EXCEPT !.pc = "c_list", !.items = items])
     \/ IF t.k = 1 THEN Become(t, [t EXCEPT !.pc = "c_reconnect"]) ELSE Finish(t)
  /\ UNCHANGED <<subject, listener, inventory, session, steamID, clock, dbVars, pc, loc, delivered, platformVars, restarts,
                 marketVars>>

CompleteReconnect(t) ==
  /\ t.pc = "c_reconnect"
  /\ Become(t, [t EXCEPT !.pc = "c_inv", !.k = 2])
  /\ UNCHANGED <<subject, listener, inventory, session, steamID, clock, dbVars, pc, loc, delivered, platformVars, restarts,
                 marketVars>>

\* _currentWithdrawalsItems, lines 1290-1306: the names requested by the
\* merchant's withdrawals that are neither completed, failed nor cancelled
currentWithdrawalsItems(rows, merchantSteamID) ==
  UNION { Range(rows[r]._item_names) :
            r \in {w \in DOMAIN rows : /\ rows[w].merchant_steam_id = merchantSteamID
                                       /\ rows[w].completed_at = NULL
                                       /\ rows[w].failed_at = NULL
                                       /\ rows[w].cancelled_at = NULL} }

\* the listing without the filter of lines 443-447
CompleteListUnfiltered(t) ==
  /\ t.pc = "c_list"
  /\ IF t.items # <<>> THEN ListItemsToOpskins(t.items) ELSE UNCHANGED listed
  /\ Finish(t)
  /\ UNCHANGED <<subject, listener, inventory, session, steamID, clock, dbVars, pc, loc, delivered, platformVars, restarts,
                 opskins>>

\* lines 442-451: the items not wanted by an open withdrawal go to the marketplace
CompleteList(t) ==
  /\ t.pc = "c_list"
  /\ LET wanted == currentWithdrawalsItems(trade_withdrawals, offers[t.offer].sender)
         items == SelectSeq(t.items, LAMBDA e : e.market_hash_name \notin wanted) IN
       IF items # <<>> THEN ListItemsToOpskins(items) ELSE UNCHANGED listed
  /\ Finish(t)
  /\ UNCHANGED <<subject, listener, inventory, session, steamID, clock, dbVars, pc, loc, delivered, platformVars, restarts,
                 opskins>>

sentOfferChanged(t) ==
  \/ CompleteStart(t) \/ CompleteFail(t) \/ CompleteCredit(t) \/ CompleteMark(t)
  \/ CompleteInventory(t) \/ CompleteReconnect(t) \/ CompleteList(t)

----------------------------------------------------------------------------
(* _buyPlaceholderItems: sourcing the items of a withdrawal on the marketplace *)

Listing(id, amount, name) == [id |-> id, amount |-> amount, market_name |-> name]

OtherName(item) == IF item = "A" THEN "B" ELSE "A"

\* what a search for an item can answer, cheapest listing first
SearchResults(item) ==
  { <<>>,
    <<Listing(1, 300, item)>>,
    <<Listing(2, 450, item)>>,
    <<Listing(3, 500, item)>>,
    <<Listing(1, 300, item), Listing(2, 450, item), Listing(3, 500, item)>>,
    <<Listing(4, 300, OtherName(item))>> }

\* the guard with the comparison with the safe price turned round
TooExpensiveBelowSafe(listing, safe) ==
  listing.amount >= 4 * 100 /\ listing.amount * 100 <= safe * 105

\* line 754: "Item to expensive", the batch is given up
TooExpensive(listing, safe) ==
  listing.amount >= 4 * 100 /\ listing.amount * 100 >= safe * 105

\* lines 760-761, 770-771, 780-781: may listing number k of the results be bought
Buyable(results, k, balance, item) ==
  Len(results) >= k /\ balance >= results[k].amount /\ results[k].market_name = item

\* resolve([]): startWithdrawal goes on at line 573 with no item
NoItems(m, l) ==
  /\ pc' = [pc EXCEPT ![m] = "w_nobuy"]
  /\ loc' = [loc EXCEPT ![m] = [LocInit EXCEPT !.names = l.names, !.purchases = l.purchases]]

\* lines 754-757: the price guard resolves([]) in the middle of the search for
\* item l.i + 1, whose results are kept with the locals
GiveUp(m, l) ==
  /\ pc' = [pc EXCEPT ![m] = "w_nobuy"]
  /\ loc' = [loc EXCEPT ![m] = [LocInit EXCEPT !.names = l.names, !.purchases = l.purchases,
                                               !.i = l.i, !.results = l.results]]

\* the head of the loop (line 723-730) for the locals l, and what follows the
\* loop (lines 799, 860) when it is over
BuyLoop(m, l) ==
  LET n == Len(trade_withdrawal_items[Id])
      sp == getDbCentPrices(opskins.cache).price IN
    IF l.i < n /\ l.searches < RPM * 4
      THEN IF l.i + 1 > Len(l.names) \/ l.names[l.i + 1] \notin DOMAIN sp
             THEN NoItems(m, l)
             ELSE /\ pc' = [pc EXCEPT ![m] = "b_search"]
                  /\ loc' = [loc EXCEPT ![m] = [l EXCEPT !.k = 1, !.results = <<>>,
                                                          !.attempt = 0]]
      ELSE IF Len(l.purchases) # 0 /\ n = Len(l.purchases)
        THEN /\ pc' = [pc EXCEPT ![m] = "b_withdraw"]
             /\ loc' = [loc EXCEPT ![m] = [l EXCEPT !.k = 1, !.phase = 1, !.results = <<>>]]
        ELSE NoItems(m, l)

\* the loop goes to its next item
BuyNext(m, l) == BuyLoop(m, [l EXCEPT !.i = @ + 1])

\* lines 705-710: the marketplace balance
BuyBalance(m) ==
  /\ Kind = "withdrawal" /\ pc[m] = "b_balance"
  /\ \/ \E balance \in Balances :
          Goto(m, "b_prices") /\ loc' = [loc EXCEPT ![m].balance = balance]
     \/ NoItems(m, loc[m])
  /\ UNCHANGED <<subject, listener, inventory, session, steamID, clock, dbVars, delivered, platformVars, restarts, tasks,
                 marketVars>>

\* lines 712-723: the safe prices, then the loop starts
BuyPrices(m) ==
  /\ Kind = "withdrawal" /\ pc[m] = "b_prices"
  /\ IF getDbCentPrices(opskins.cache).null
       THEN NoItems(m, loc[m])
       ELSE BuyLoop(m, [loc[m] EXCEPT !.i = 0, !.searches = 0, !.purchases = <<>>])
  /\ UNCHANGED <<subject, listener, inventory, session, steamID, clock, dbVars, delivered, platformVars, restarts, tasks,
                 marketVars>>

\* a fourth attempt after three failed searches
SearchAgainFourth(k) == k < 4

\* lines 735-752: a failed search is tried again, the third failure is the last
SearchAgain(k) == k < 3

\* lines 732-761: one search (attempt loc.k of 3); a result goes through the
\* price guard, which throws on an empty result, and on to the first purchase
BuySearch(m) ==
  /\ Kind = "withdrawal" /\ pc[m] = "b_search"
  /\ LET item == loc[m].names[loc[m].i + 1]
         safe == getDbCentPrices(opskins.cache).price[item] IN
     \/ \E results \in SearchResults(item) :
          LET l == [loc[m] EXCEPT !.searches = @ + 1, !.results = results,
                                  !.attempt = loc[m].k] IN
            IF results = <<>> THEN Hang(m)
            ELSE IF TooExpensive(results[1], safe) THEN GiveUp(m, l)
            ELSE IF Buyable(results, 1, l.balance, item)
              THEN /\ pc' = [pc EXCEPT ![m] = "b_buy"]
                   /\ loc' = [loc EXCEPT ![m] = [l EXCEPT !.k = 1]]
              ELSE BuyNext(m, l)
     \/ IF SearchAgain(loc[m].k)
          THEN loc' = [loc EXCEPT ![m].k = @ + 1] /\ UNCHANGED pc
          ELSE BuyNext(m, loc[m])
  /\ UNCHANGED <<subject, listener, inventory, session, steamID, clock, dbVars, delivered, platformVars, restarts, tasks,
                 marketVars>>

\* an entry of purchases: the new item id, with the request it answers, the
\* listing's place in the results and the price paid
Purchase(i, item, k, listing) ==
  [ new_itemid |-> 10 * (i + 1) + listing.id, item |-> item, rank |-> k,
    amount |-> listing.amount ]

\* lines 762-792: the purchase of listing number loc.k; when it fails the next
\* listing is tried if it may be bought, up to the third
BuyItem(m) ==
  /\ Kind = "withdrawal" /\ pc[m] = "b_buy"
  /\ LET l == loc[m]
         item == l.names[l.i + 1]
         listing == l.results[l.k] IN
     \/ BuyNext(m, [l EXCEPT !.purchases = Append(@, [attempt |-> l.attempt]
                                                      @@ Purchase(l.i, item, l.k, listing)),
                                !.balance = @ - listing.amount])
     \/ IF l.k < 3 /\ Buyable(l.results, l.k + 1, l.balance, item)
          THEN loc' = [loc EXCEPT ![m].k = @ + 1] /\ UNCHANGED pc
          ELSE BuyNext(m, l)
  /\ UNCHANGED <<subject, listener, inventory, session, steamID, clock, dbVars, delivered, platformVars, restarts, tasks,
                 marketVars>>

\* lines 801-809 and 826-827: a call of _withdrawOpskinsItems; in the first
\* phase up to three calls, until one succeeds
BuyWithdraw(m) ==
  /\ Kind = "withdrawal" /\ pc[m] = "b_withdraw"
  /\ \E success \in BOOLEAN :
       IF loc[m].phase = 1 /\ ~success /\ loc[m].k < 3
         THEN loc' = [loc EXCEPT ![m].k = @ + 1] /\ UNCHANGED pc
         ELSE Goto(m, "b_inv") /\ loc' = [loc EXCEPT ![m].k = 1]
  /\ UNCHANGED <<subject, listener, inventory, session, steamID, clock, dbVars, delivered, platformVars, restarts, tasks,
                 marketVars>>

\* lines 841-849: the inventory items whose name is still wanted; a name found
\* is dropped from withdrawal._item_names altogether
RECURSIVE FilterItems(_, _, _, _)
FilterItems(items, j, names, acc) ==
  IF j > Len(items) THEN [itemsfiltred |-> acc, names |-> names]
  ELSE IF \E x \in 1..Len(names) : names[x] = items[j].market_hash_name
    THEN FilterItems(items, j + 1,
                     SelectSeq(names, LAMBDA name : name # items[j].market_hash_name),
                     Append(acc, items[j]))
    ELSE FilterItems(items, j + 1, names, acc)

\* lines 811-858: the bot's inventory (once more after a session refresh, whose
\* failure throws), a last withdraw when it is empty, then the filter
BuyInventory(m) ==
  /\ Kind = "withdrawal" /\ pc[m] = "b_inv"
  /\ \/ \E items \in MerchantInventories :
          IF items = <<>> /\ loc[m].phase = 1
            THEN Goto(m, "b_withdraw") /\ loc' = [loc EXCEPT ![m].phase = 2, ![m].k = 1]
            ELSE LET f == FilterItems(items, 1, loc[m].names, <<>>) IN
              IF f.itemsfiltred = <<>>
                   \/ Len(trade_withdrawal_items[Id]) # Len(f.itemsfiltred)
                THEN NoItems(m, [loc[m] EXCEPT !.names = f.names])
                ELSE /\ pc' = [pc EXCEPT ![m] = "w_send"]
                     /\ loc' = [loc EXCEPT ![m] =
                                  [LocInit EXCEPT !.names = f.names, !.items = f.itemsfiltred]]
     \/ IF loc[m].k = 1
          THEN Goto(m, "b_inv_reconnect") /\ UNCHANGED loc
          ELSE Hang(m)
  /\ UNCHANGED <<subject, listener, inventory, session, steamID, clock, dbVars, delivered, platformVars, restarts, tasks,
                 marketVars>>

\* lines 820, 835: await this._reconnectToSteam()
BuyInventoryReconnect(m) ==
  /\ Kind = "withdrawal" /\ pc[m] = "b_inv_reconnect"
  /\ Goto(m, "b_inv") /\ loc' = [loc EXCEPT ![m].k = 2]
  /\ UNCHANGED <<subject, listener, inventory, session, steamID, clock, dbVars, delivered, platformVars, restarts, tasks,
                 marketVars>>

buyPlaceholderItems(m) ==
  \/ BuyBalance(m) \/ BuyPrices(m) \/ BuySearch(m) \/ BuyItem(m) \/ BuyWithdraw(m)
  \/ BuyInventory(m) \/ BuyInventoryReconnect(m)

----------------------------------------------------------------------------
(* startWithdrawal: after the sourcing *)

\* lines 573-580: nothing was sourced, the withdrawal fails
WithdrawalNoBuy(m) ==
  /\ Kind = "withdrawal" /\ pc[m] = "w_nobuy"
  /\ failWithdrawal(Id, Str("Failed to complete withdrawal, please try again later."))
  /\ Goto(m, "w_check") /\ UNCHANGED loc
  /\ UNCHANGED <<subject, listener, inventory, session, steamID, users, delivered, platformVars, restarts, tasks,
                 marketVars>>

\* a call of _listAgainItems (lines 1363-1389) that has just started
ListAgainTask(m, names) ==
  [ owner |-> m, offer |-> NULL, oldState |-> NULL, state |-> NULL, deposit |-> FALSE,
    pc |-> "a_inv", id |-> NULL, k |-> 1, items |-> <<>>, names |-> names ]

\* lines 582-584: _checkOpskinsUserInventory has answered; _listAgainItems is
\* started and not awaited
WithdrawalCheck(m) ==
  /\ Kind = "withdrawal" /\ pc[m] = "w_check"
  /\ tasks' = tasks \cup {ListAgainTask(m, loc[m].names)}
  /\ Return(m)
  /\ UNCHANGED <<subject, listener, inventory, session, steamID, clock, dbVars, delivered, platformVars, restarts,
                 marketVars>>

\* lines 1366-1388: the bot's inventory, once more after a session refresh; the
\* items carrying a requested name are listed (every item when no name is left)
ListAgainInventory(t) ==
  /\ t.pc = "a_inv"
  /\ \/ /\ \E inv \in MerchantInventories :
             LET items == IF t.names # <<>> /\ inv # <<>>
                            THEN SelectSeq(inv, LAMBDA e :
                                   \E x \in 1..Len(t.names) : t.names[x] = e.market_hash_name)
                            ELSE inv IN
               IF items # <<>> THEN ListItemsToOpskins(items) ELSE UNCHANGED listed
        /\ Finish(t)
     \/ /\ IF t.k = 1 THEN Become(t, [t EXCEPT !.pc = "a_reconnect"]) ELSE Finish(t)
        /\ UNCHANGED listed
  /\ UNCHANGED <<subject, listener, inventory, session, steamID, clock, dbVars, pc, loc, delivered, platformVars, restarts,
                 opskins>>

ListAgainReconnect(t) ==
  /\ t.pc = "a_reconnect"
  /\ Become(t, [t EXCEPT !.pc = "a_inv", !.k = 2])
  /\ UNCHANGED <<subject, listener, inventory, session, steamID, clock, dbVars, pc, loc, delivered, platformVars, restarts,
                 marketVars>>

listAgainItems(t) == ListAgainInventory(t) \/ ListAgainReconnect(t)

\* lines 587-591: the sourced items are attached and the offer is sent; it
\* waits for the mobile confirmation
WithdrawalSend(m) ==
  /\ Kind = "withdrawal" /\ pc[m] = "w_send"
  /\ \/ /\ Transmit(m, "withdrawal", Id, CreatedNeedsConfirmation, {},
                    {loc[m].items[j].assetid : j \in 1..Len(loc[m].items)})
        /\ Goto(m, "w_confirm")
     \/ /\ ToFail(m, Err("send error"))
        /\ UNCHANGED <<clock, platformVars>>
  /\ UNCHANGED <<subject, listener, inventory, session, steamID, dbVars, delivered, restarts, tasks, marketVars>>

\* the workflow without the confirmation: the offer goes on as it was sent
WithdrawalConfirmSkipped(m) ==
  /\ Kind = "withdrawal" /\ pc[m] = "w_confirm"
  /\ Goto(m, "w_mark")
  /\ UNCHANGED <<subject, listener, inventory, session, steamID, clock, dbVars, loc, delivered, platformVars,
                 restarts, tasks, marketVars>>

\* line 593: the confirmation makes the offer active, or fails
WithdrawalConfirm(m) ==
  /\ Kind = "withdrawal" /\ pc[m] = "w_confirm"
  /\ \/ /\ offers[loc[m].offer].state = CreatedNeedsConfirmation
        /\ offers' = [offers EXCEPT ![loc[m].offer].state = Active]
        /\ Goto(m, "w_mark") /\ UNCHANGED loc
     \/ /\ ToFail(m, Err("confirm error"))
        /\ UNCHANGED offers
  /\ UNCHANGED <<subject, listener, inventory, session, steamID, clock, dbVars, delivered, pollData, pollDataFile, restarts,
                 tasks, marketVars>>

\* lines 596-599
WithdrawalMarkOffered(m) ==
  /\ Kind = "withdrawal" /\ pc[m] = "w_mark"
  /\ trade_withdrawals' = MarkOffered(trade_withdrawals, Id, loc[m].offer,
                                      offers[loc[m].offer].created)
  /\ Return(m)
  /\ UNCHANGED <<subject, listener, inventory, session, steamID, clock, users, trade_deposits, delivered, platformVars,
                 restarts, tasks, marketVars>>

\* every "return await failWithdrawal(...)" of startWithdrawal, and line 603
WithdrawalFail(m) ==
  /\ Kind = "withdrawal" /\ pc[m] = "fail"
  /\ failWithdrawal(Id, loc[m].msg)
  /\ Return(m)
  /\ UNCHANGED <<subject, listener, inventory, session, steamID, users, delivered, platformVars, restarts, tasks,
                 marketVars>>

startWithdrawal(m) ==
  \/ StartWithdrawal(m) \/ WithdrawalLock(m) \/ WithdrawalSelect(m) \/ WithdrawalUser(m)
  \/ WithdrawalDetails(m) \/ WithdrawalDetailsReconnect(m) \/ WithdrawalItems(m)
  \/ buyPlaceholderItems(m)
  \/ WithdrawalNoBuy(m) \/ WithdrawalCheck(m) \/ WithdrawalSend(m) \/ WithdrawalConfirm(m)
  \/ WithdrawalMarkOffered(m) \/ WithdrawalFail(m)

----------------------------------------------------------------------------
(* Initial states and the next-state relation *)

\* the rows the ordering system has created: user u1 has a trade link, u2 none
InitUsers ==
  [u \in Users |-> [trade_link_url |-> (u = "u1"), balance |-> IF u = "u1" THEN 7 ELSE 0]]
InitDeposits ==
  [id \in TradeIds |-> CASE id = 1 -> Row("u1", 5, 1, <<"A", "B">>, NULL)
                          [] id = 2 -> Row("u2", 3, 0, <<"A">>, NULL)
                          [] id = 3 -> Row("u1", 4, 0, <<>>, NULL)
                          [] OTHER -> Row("u1", 2, 0, <<"A">>, NULL)]

InitWithdrawals ==
  [id \in TradeIds |-> CASE id = 1 -> Row("u1", 700, 0, <<"A", "B">>, UNCLAIMED)
                          [] id = 2 -> Row("u2", 300, 0, <<"A">>, UNCLAIMED)
                          [] id = 3 -> Row("u1", 300, 0, <<>>, UNCLAIMED)
                          [] OTHER -> Row("u1", 300, 0, <<"A", "B", "A", "B">>, UNCLAIMED)]

\* the marketplace data of the runs of the workflows
InitOpskins ==
  { [ key |-> key,
      priceData |-> [n \in Names |-> [price |-> 300,
                                      quantity |-> IF n = "A" THEN 400 ELSE 12]],
      cache |-> [n \in Names |-> [cents |-> IF n = "A" THEN 100 ELSE 450,
                                  blacklisted |-> FALSE]] ] : key \in BOOLEAN }

Init ==
  /\ subject \in Subjects
  /\ steamID \in {[m \in Merchants |-> TRUE], [m \in Merchants |-> m # 101]}
  /\ clock = 0
  /\ users = InitUsers
  /\ trade_deposits = InitDeposits
  /\ trade_withdrawals = InitWithdrawals
  /\ pc = [m \in Merchants |-> "idle"]
  /\ loc = [m \in Merchants |-> LocInit]
  /\ delivered = 0
  /\ offers = <<>>
  /\ pollData = <<>>
  /\ pollDataFile = <<>>
  /\ restarts = 0
  /\ tasks = {}
  /\ opskins \in InitOpskins
  /\ listed = {}
  /\ inventory = <<>>
  /\ session = InitSession
  /\ listener = Listening

Next ==
  \/ \E m \in Merchants : startDeposit(m)
  \/ \E m \in Merchants : startWithdrawal(m)
  \/ \E t \in tasks : sentOfferChanged(t)
  \/ \E t \in tasks : listAgainItems(t)
  \/ \E o \in OfferIds : PlatformStep(o)
  \/ \E o \in OfferIds : Poll(o)
  \/ WritePollData
  \/ \E m \in Merchants : Restart(m)

Spec == Init /\ [][Next]_vars

\* The workflows of a process that keeps running: every started call, handler
\* and poll of the manager gets its next step, and every external call answers;
\* what the counterparty does with an offer is left to it
NextLive ==
  \/ \E m \in Merchants : startDeposit(m)
  \/ \E m \in Merchants : startWithdrawal(m)
  \/ \E t \in tasks : sentOfferChanged(t)
  \/ \E t \in tasks : listAgainItems(t)
  \/ \E o \in OfferIds : PlatformStep(o)
  \/ \E o \in OfferIds : Poll(o)
  \/ WritePollData

Fairness ==
  /\ \A m \in Merchants : WF_vars(startDeposit(m) \/ startWithdrawal(m))
  /\ WF_vars(\E t \in tasks : sentOfferChanged(t))
  /\ WF_vars(\E t \in tasks : listAgainItems(t))
  /\ WF_vars(\E o \in OfferIds : Poll(o))
  /\ WF_vars(WritePollData)

SpecLive == Init /\ [][NextLive]_vars /\ Fairness

\* The marketplace alone: what the listing after an acquisition and the hourly
\* job send, over the price data the marketplace and the price cache can hold
MarketPrices == {100, 260, 301}
MarketQuantities == {12, 13}
CachePrices == {0, 200, 400}

InitOpskinsMarket ==
  { [ key |-> TRUE,
      priceData |-> [n \in D |-> [price |-> IF n = "A" THEN p ELSE 300,
                                  quantity |-> IF n = "A" THEN q ELSE 400]],
      cache |-> [n \in Names |-> [cents |-> IF n = "A" THEN c ELSE 450,
                                  blacklisted |-> FALSE]] ] :
    D \in {{"A"}, {"A", "B"}}, p \in MarketPrices, q \in MarketQuantities, c \in CachePrices }

InitMarket ==
  /\ subject = <<"deposit", 1>>
  /\ steamID = [m \in Merchants |-> TRUE]
  /\ clock = 0
  /\ users = InitUsers
  /\ trade_deposits = InitDeposits
  /\ trade_withdrawals = InitWithdrawals
  /\ pc = [m \in Merchants |-> "idle"]
  /\ loc = [m \in Merchants |-> LocInit]
  /\ delivered = 0
  /\ offers = <<>>
  /\ pollData = <<>>
  /\ pollDataFile = <<>>
  /\ restarts = 0
  /\ tasks = {}
  /\ opskins \in InitOpskinsMarket
  /\ listed = {}
  /\ inventory = <<>>
  /\ session = InitSession
  /\ listener = Listening

NextMarket ==
  \/ ListInventory
  \/ relistOpskinsItems

SpecMarket == InitMarket /\ [][NextMarket]_vars

\* fail() alone: calls with either table, ids with and without a row, and a
\* value of each type e can have; tasks holds the arguments of the last call
MaxFailCalls == 2
FailTables == {"trade_deposits", "trade_withdrawals"}
FailIds == TradeIds \cup {1234}
FailValues == {Err("whoops"), Str("oh no"), Obj("\"foo\":\"bar\"")}

InitFail ==
  /\ subject \in {<<"deposit", 1>>, <<"withdrawal", 1>>}
  /\ steamID = [m \in Merchants |-> TRUE]
  /\ clock = 0
  /\ users = InitUsers
  /\ trade_deposits = InitDeposits
  /\ trade_withdrawals = InitWithdrawals
  /\ pc = [m \in Merchants |-> "idle"]
  /\ loc = [m \in Merchants |-> LocInit]
  /\ delivered = 0
  /\ offers = <<>>
  /\ pollData = <<>>
  /\ pollDataFile = <<>>
  /\ restarts = 0
  /\ tasks = {}
  /\ opskins \in InitOpskins
  /\ listed = {}
  /\ inventory = <<>>
  /\ session = InitSession
  /\ listener = Listening

FailCall(table, id, e) ==
  /\ clock < MaxFailCalls
  /\ fail(table, id, e)
  /\ tasks' = {[table |-> table, id |-> id, e |-> e]}
  /\ UNCHANGED <<subject, listener, inventory, session, steamID, users, pc, loc, delivered, offers, pollData,
                 pollDataFile, restarts, opskins, listed>>

NextFail == \E table \in FailTables, id \in FailIds, e \in FailValues : FailCall(table, id, e)

SpecFail == InitFail /\ [][NextFail]_vars

\* One merchant handling the notifications of two withdrawals at once: the
\* listener starts startWithdrawal for each notification without waiting for
\* the one before (lines 166-187), so the calls interleave at their awaits.
\* Here pc and loc are those of the calls, by withdrawal id; opskins carries
\* the account's balance and the listings on sale, inventory the units the
\* merchant holds on the platform. The lookups between the claim and the
\* sourcing (lines 471-571) are one step, as are send and confirmation.
Calls == {1, 2}
TheMerchant == 101
ConcurrentBalances == {700, 1000}
InitSales == {Listing(1, 300, "A"), Listing(2, 300, "A"), Listing(3, 400, "B")}

\* what the merchant holds before the calls: nothing, or a unit named A
InitInventories == {<<>>, <<Item(5, "A")>>}

InitConcurrent ==
  /\ subject = <<"withdrawal", 1>>
  /\ steamID = [m \in Merchants |-> TRUE]
  /\ clock = 0
  /\ users = InitUsers
  /\ trade_deposits = InitDeposits
  /\ trade_withdrawals = [InitWithdrawals EXCEPT ![2].user_steam_id = "u1"]
  /\ pc = [c \in Calls |-> "idle"]
  /\ loc = [c \in Calls |-> LocInit]
  /\ delivered = 0
  /\ offers = <<>>
  /\ pollData = <<>>
  /\ pollDataFile = <<>>
  /\ restarts = 0
  /\ tasks = {}
  /\ opskins \in { [balance |-> b, sales |-> InitSales] @@ o :
                   b \in ConcurrentBalances, o \in {x \in InitOpskins : x.key} }
  /\ listed = {}
  /\ inventory \in InitInventories
  /\ session = InitSession
  /\ listener = Listening

\* what no step of these calls touches
CallFrame ==
  UNCHANGED <<subject, listener, session, steamID, users, trade_deposits, delivered, restarts, tasks, listed>>

\* the listings on sale under a name, in the order of their ids
SalesOf(name) ==
  LET S == {x \in opskins.sales : x.market_name = name} IN
    CHOOSE seq \in [1..Cardinality(S) -> S] :
      \A a, b \in 1..Cardinality(S) : a < b => seq[a].id < seq[b].id

\* lines 166-187 and 455-464: the notification starts a call
CallStart(c) ==
  /\ pc[c] = "idle"
  /\ pc' = [pc EXCEPT ![c] = "l_balance"]
  /\ CallFrame
  /\ UNCHANGED <<clock, trade_withdrawals, loc, offers, pollData, pollDataFile, opskins,
                 inventory>>

\* lines 1268-1273: _lockWithdrawal reads the balance of the account
lockWithdrawalBalance(c) ==
  /\ pc[c] = "l_balance"
  /\ \/ /\ loc' = [loc EXCEPT ![c].balance = opskins.balance]
        /\ pc' = [pc EXCEPT ![c] = "l_update"]
     \/ /\ pc' = [pc EXCEPT ![c] = "done"]
        /\ UNCHANGED loc
  /\ CallFrame
  /\ UNCHANGED <<clock, trade_withdrawals, offers, pollData, pollDataFile, opskins, inventory>>

\* lines 1274-1285 and 466-469: the conditional update with the balance read
lockWithdrawalUpdate(c) ==
  /\ pc[c] = "l_update"
  /\ trade_withdrawals' =
       LockWithdrawal(trade_withdrawals, c, TheMerchant, loc[c].balance, ConfigAppId)
  /\ pc' = [pc EXCEPT ![c] =
              IF WithdrawalLockable(trade_withdrawals[c], loc[c].balance, ConfigAppId)
                THEN "w_checks" ELSE "done"]
  /\ CallFrame
  /\ UNCHANGED <<clock, loc, offers, pollData, pollDataFile, opskins, inventory>>

\* lines 471-571: the row, the user, the counterparty's profile and the item
\* rows are read; a failed check fails the withdrawal
withdrawalChecks(c) ==
  /\ pc[c] = "w_checks"
  /\ \/ /\ pc' = [pc EXCEPT ![c] = "b_balance"]
        /\ loc' = [loc EXCEPT ![c].names = trade_withdrawals[c]._item_names]
        /\ UNCHANGED <<clock, trade_withdrawals>>
     \/ /\ failWithdrawal(c, Err("There was an error getting the user details"))
        /\ pc' = [pc EXCEPT ![c] = "done"]
        /\ UNCHANGED loc
  /\ CallFrame
  /\ UNCHANGED <<offers, pollData, pollDataFile, opskins, inventory>>

\* lines 705-727: _buyPlaceholderItems reads the balance again into its local
\* variable, then the safe prices
buyGetBalance(c) ==
  /\ pc[c] = "b_balance"
  /\ \/ /\ loc' = [loc EXCEPT ![c].balance = opskins.balance, ![c].i = 0,
                              ![c].purchases = <<>>]
        /\ pc' = [pc EXCEPT ![c] = "b_search"]
     \/ /\ pc' = [pc EXCEPT ![c] = "w_nobuy"]
        /\ UNCHANGED loc
  /\ CallFrame
  /\ UNCHANGED <<clock, trade_withdrawals, offers, pollData, pollDataFile, opskins, inventory>>

\* lines 723 and 799: after item l.i + 1 the next name, or the end of the loop
CallNext(c, l) ==
  IF l.i + 1 < Len(trade_withdrawal_items[c])
    THEN /\ pc' = [pc EXCEPT ![c] = "b_search"]
         /\ loc' = [loc EXCEPT ![c] = [l EXCEPT !.i = @ + 1, !.results = <<>>, !.k = 0]]
    ELSE /\ pc' = [pc EXCEPT ![c] =
                     IF l.purchases # <<>>
                        /\ Len(trade_withdrawal_items[c]) = Len(l.purchases)
                       THEN "b_withdraw" ELSE "w_nobuy"]
         /\ loc' = [loc EXCEPT ![c] = [l EXCEPT !.results = <<>>, !.k = 0]]

\* lines 732-761: the search answers the listings on sale (or fails three
\* times); results[0] of an empty answer throws in the callback of getBalance
searchOpskins(c) ==
  /\ pc[c] = "b_search"
  /\ LET item == loc[c].names[loc[c].i + 1]
         safe == getDbCentPrices(opskins.cache).price[item]
         results == SalesOf(item)
         l == [loc[c] EXCEPT !.results = results] IN
     \/ IF results = <<>>
          THEN pc' = [pc EXCEPT ![c] = "hung"] /\ UNCHANGED loc
          ELSE IF TooExpensive(results[1], safe)
            THEN pc' = [pc EXCEPT ![c] = "w_nobuy"] /\ UNCHANGED loc
            ELSE IF Buyable(results, 1, l.balance, item)
              THEN /\ pc' = [pc EXCEPT ![c] = "b_buy"]
                   /\ loc' = [loc EXCEPT ![c] = [l EXCEPT !.k = 1]]
              ELSE CallNext(c, l)
     \/ CallNext(c, loc[c])
  /\ CallFrame
  /\ UNCHANGED <<clock, trade_withdrawals, offers, pollData, pollDataFile, opskins, inventory>>

\* lines 762-792 and 1151-1167: the marketplace sells listing number k when it
\* is still on sale and the account's balance covers it, and answers the new
\* balance; it refuses otherwise and the next listing is tried
buyOpskinsItem(c) ==
  /\ pc[c] = "b_buy"
  /\ LET l == loc[c]
         item == l.names[l.i + 1]
         listing == l.results[l.k] IN
       IF listing \in opskins.sales /\ opskins.balance >= listing.amount
         THEN /\ opskins' = [opskins EXCEPT !.balance = @ - listing.amount,
                                            !.sales = @ \ {listing}]
              /\ CallNext(c, [l EXCEPT
                                !.purchases = Append(@, [attempt |-> 1]
                                                        @@ Purchase(l.i, item, l.k, listing)),
                                !.balance = opskins.balance - listing.amount])
         ELSE /\ UNCHANGED opskins
              /\ IF l.k < 3 /\ Buyable(l.results, l.k + 1, l.balance, item)
                   THEN loc' = [loc EXCEPT ![c].k = @ + 1] /\ UNCHANGED pc
                   ELSE CallNext(c, l)
  /\ CallFrame
  /\ UNCHANGED <<clock, trade_withdrawals, offers, pollData, pollDataFile, inventory>>

\* lines 801-809 and 1169-1190: the purchased units are delivered to the
\* merchant's inventory
withdrawOpskinsItems(c) ==
  /\ pc[c] = "b_withdraw"
  /\ inventory' = inventory \o [j \in 1..Len(loc[c].purchases) |->
                                  Item(loc[c].purchases[j].new_itemid, loc[c].purchases[j].item)]
  /\ pc' = [pc EXCEPT ![c] = "b_inv"]
  /\ CallFrame
  /\ UNCHANGED <<clock, trade_withdrawals, loc, offers, pollData, pollDataFile, opskins>>

\* lines 811-858: the whole inventory is fetched and filtered by name
getUserInventory(c) ==
  /\ pc[c] = "b_inv"
  /\ LET f == FilterItems(inventory, 1, loc[c].names, <<>>) IN
       IF f.itemsfiltred = <<>> \/ Len(trade_withdrawal_items[c]) # Len(f.itemsfiltred)
         THEN pc' = [pc EXCEPT ![c] = "w_nobuy"] /\ UNCHANGED loc
         ELSE /\ pc' = [pc EXCEPT ![c] = "w_send"]
              /\ loc' = [loc EXCEPT ![c].names = f.names, ![c].items = f.itemsfiltred]
  /\ CallFrame
  /\ UNCHANGED <<clock, trade_withdrawals, offers, pollData, pollDataFile, opskins, inventory>>

\* lines 573-585: no items, the withdrawal fails
failNoItems(c) ==
  /\ pc[c] = "w_nobuy"
  /\ failWithdrawal(c, Str("Failed to complete withdrawal, please try again later."))
  /\ pc' = [pc EXCEPT ![c] = "done"]
  /\ CallFrame
  /\ UNCHANGED <<loc, offers, pollData, pollDataFile, opskins, inventory>>

\* lines 587-593 and 603: the offer with the filtered items is sent and
\* confirmed; an error fails the withdrawal
sendOffer(c) ==
  /\ pc[c] = "w_send"
  /\ \/ /\ clock' = clock + 1
        /\ offers' = Append(offers,
             [sender |-> TheMerchant, state |-> Active, created |-> clock + 1,
              itemsToReceive |-> {},
              itemsToGive |-> {loc[c].items[j].assetid : j \in 1..Len(loc[c].items)},
              kind |-> "withdrawal", trade |-> c])
        /\ pollData' = Append(pollData, Active)
        /\ pollDataFile' = Append(pollDataFile, 0)
        /\ loc' = [loc EXCEPT ![c].offer = Len(offers) + 1]
        /\ pc' = [pc EXCEPT ![c] = "w_mark"]
        /\ UNCHANGED trade_withdrawals
     \/ /\ failWithdrawal(c, Err("send error"))
        /\ pc' = [pc EXCEPT ![c] = "done"]
        /\ UNCHANGED <<loc, offers, pollData, pollDataFile>>
  /\ CallFrame
  /\ UNCHANGED <<opskins, inventory>>

\* lines 596-599
markOffered(c) ==
  /\ pc[c] = "w_mark"
  /\ trade_withdrawals' = MarkOffered(trade_withdrawals, c, loc[c].offer,
                                      offers[loc[c].offer].created)
  /\ pc' = [pc EXCEPT ![c] = "done"]
  /\ CallFrame
  /\ UNCHANGED <<clock, loc, offers, pollData, pollDataFile, opskins, inventory>>

NextConcurrent ==
  \E c \in Calls :
    \/ CallStart(c) \/ lockWithdrawalBalance(c) \/ lockWithdrawalUpdate(c)
    \/ withdrawalChecks(c) \/ buyGetBalance(c) \/ searchOpskins(c) \/ buyOpskinsItem(c)
    \/ withdrawOpskinsItems(c) \/ getUserInventory(c) \/ failNoItems(c) \/ sendOffer(c)
    \/ markOffered(c)

SpecConcurrent == InitConcurrent /\ [][NextConcurrent]_vars

\* The web session of one merchant while several of its workflows ask for a
\* refresh: pc and loc are those of the workflows; loc.k counts the refreshes a
\* workflow has asked for
MaxReconnects == 2
Requesters == {1, 2, 3}

InitRefresh ==
  /\ subject = <<"deposit", 1>>
  /\ steamID = [m \in Merchants |-> TRUE]
  /\ clock = 0
  /\ users = InitUsers
  /\ trade_deposits = InitDeposits
  /\ trade_withdrawals = InitWithdrawals
  /\ pc = [c \in Requesters |-> "work"]
  /\ loc = [c \in Requesters |-> LocInit]
  /\ delivered = 0
  /\ offers = <<>>
  /\ pollData = <<>>
  /\ pollDataFile = <<>>
  /\ restarts = 0
  /\ tasks = {}
  /\ opskins \in {x \in InitOpskins : x.key}
  /\ listed = {}
  /\ inventory = <<>>
  /\ session = InitSession
  /\ listener = Listening

RefreshFrame ==
  UNCHANGED <<subject, listener, inventory, steamID, clock, dbVars, delivered, platformVars, restarts,
              tasks, marketVars>>

\* lines 952-967: _reconnectToSteam calls webLogOn and waits for the next
\* webSession event
reconnectToSteam(c) ==
  /\ pc[c] = "work" /\ loc[c].k < MaxReconnects
  /\ session' = [session EXCEPT !.logOns = @ + 1]
  /\ pc' = [pc EXCEPT ![c] = "reconnect"]
  /\ loc' = [loc EXCEPT ![c].k = @ + 1]
  /\ RefreshFrame

\* lines 83-93: the first sessionExpired event since the last session logs on
\* again, the following ones are ignored
sessionExpired ==
  /\ ~session.hasExpired
  /\ session' = [hasExpired |-> TRUE, logOns |-> session.logOns + 1]
  /\ UNCHANGED <<pc, loc>>
  /\ RefreshFrame

\* lines 56-62 and 958-965: the platform answers one webLogOn; the flag is
\* cleared and every waiting _reconnectToSteam resolves
webSession ==
  /\ session.logOns > 0
  /\ session' = [hasExpired |-> FALSE, logOns |-> session.logOns - 1]
  /\ pc' = [c \in Requesters |-> "work"]
  /\ UNCHANGED loc
  /\ RefreshFrame

NextRefresh ==
  \/ \E c \in Requesters : reconnectToSteam(c)
  \/ sessionExpired
  \/ webSession

SpecRefresh == InitRefresh /\ [][NextRefresh]_vars

\* The filter at the end of _buyPlaceholderItems alone (lines 841-857), for one
\* call after a complete batch of purchases: loc.names is
\* withdrawal._item_names, loc.i the number of requested items, inventory the
\* inventory fetched
MaxInventory == 3
FilterCall == 1
RequestedNames == UNION {[1..n -> Names] : n \in 1..MAX_WITHDRAWAL_SIZE}
FetchedInventories ==
  UNION { {[j \in 1..n |-> Item(j, f[j])] : f \in [1..n -> Names]} : n \in 0..MaxInventory }

InitFilter ==
  /\ subject = <<"withdrawal", 1>>
  /\ steamID = [m \in Merchants |-> TRUE]
  /\ clock = 0
  /\ users = InitUsers
  /\ trade_deposits = InitDeposits
  /\ trade_withdrawals = InitWithdrawals
  /\ pc = [c \in {FilterCall} |-> "b_inv"]
  /\ \E names \in RequestedNames :
       loc = [c \in {FilterCall} |-> [LocInit EXCEPT !.names = names, !.i = Len(names)]]
  /\ delivered = 0
  /\ offers = <<>>
  /\ pollData = <<>>
  /\ pollDataFile = <<>>
  /\ restarts = 0
  /\ tasks = {}
  /\ opskins \in {x \in InitOpskins : x.key}
  /\ listed = {}
  /\ inventory \in FetchedInventories
  /\ session = InitSession
  /\ listener = Listening

\* lines 841-857: the filter and the comparison with the number of requested items
filterInventory ==
  /\ pc[FilterCall] = "b_inv"
  /\ LET l == loc[FilterCall]
         f == FilterItems(inventory, 1, l.names, <<>>) IN
       IF f.itemsfiltred = <<>> \/ l.i # Len(f.itemsfiltred)
         THEN /\ pc' = [pc EXCEPT ![FilterCall] = "w_nobuy"]
              /\ loc' = [loc EXCEPT ![FilterCall].names = f.names]
         ELSE /\ pc' = [pc EXCEPT ![FilterCall] = "w_send"]
              /\ loc' = [loc EXCEPT ![FilterCall].names = f.names,
                                    ![FilterCall].items = f.itemsfiltred]
  /\ UNCHANGED <<subject, listener, inventory, session, steamID, clock, dbVars, delivered, platformVars,
                 restarts, tasks, marketVars>>

\* the filter, then lines 573-585 when it left nothing to offer: the withdrawal
\* fails and _listAgainItems runs with what is left of withdrawal._item_names
NextFilter ==
  \/ filterInventory
  \/ WithdrawalNoBuy(FilterCall)
  \/ WithdrawalCheck(FilterCall)
  \/ \E t \in tasks : listAgainItems(t)

SpecFilter == InitFilter /\ [][NextFilter]_vars

\* completeDeposit after the UPDATE of line 420 (lines 425-451), for a deposit of
\* TheMerchant that has completed, next to withdrawals 1 and 2 in any state and
\* claimed by any bot or by none
Owners == {UNCLAIMED} \cup Merchants
WithdrawalStates == {"open", "completed", "failed", "cancelled"}

WithdrawalRow(id, owner, st) ==
  [InitWithdrawals[id] EXCEPT !.merchant_steam_id = owner,
                              !.completed_at = IF st = "completed" THEN 1 ELSE NULL,
                              !.failed_at = IF st = "failed" THEN 1 ELSE NULL,
                              !.cancelled_at = IF st = "cancelled" THEN 1 ELSE NULL]

InitComplete ==
  /\ subject = <<"deposit", 1>>
  /\ steamID = [m \in Merchants |-> TRUE]
  /\ clock = 2
  /\ users = InitUsers
  /\ trade_deposits = [InitDeposits EXCEPT ![1].acknowledged_at = 1,
                                           ![1].merchant_steam_id = TheMerchant,
                                           ![1].offered_at = 1, ![1].steam_offer_id = 1,
                                           ![1].completed_at = 2]
  /\ \E o \in [{1, 2} -> Owners], st \in [{1, 2} -> WithdrawalStates] :
       trade_withdrawals = [id \in TradeIds |->
                              IF id \in {1, 2} THEN WithdrawalRow(id, o[id], st[id])
                                               ELSE InitWithdrawals[id]]
  /\ pc = [m \in Merchants |-> "idle"]
  /\ loc = [m \in Merchants |-> LocInit]
  /\ delivered = 1
  /\ offers = <<[sender |-> TheMerchant, state |-> Accepted, created |-> 1,
                 itemsToReceive |-> trade_deposit_items[1], itemsToGive |-> {},
                 kind |-> "deposit", trade |-> 1]>>
  /\ pollData = <<Accepted>>
  /\ pollDataFile = <<Accepted>>
  /\ restarts = 0
  /\ tasks = {[Task(1, Active) EXCEPT !.pc = "c_inv", !.id = 1, !.k = 1]}
  /\ opskins \in {x \in InitOpskins : x.key}
  /\ listed = {}
  /\ inventory = <<>>
  /\ session = InitSession
  /\ listener = Listening

NextComplete ==
  \/ \E t \in tasks : CompleteInventory(t)
  \/ \E t \in tasks : CompleteReconnect(t)
  \/ \E t \in tasks : CompleteList(t)

SpecComplete == InitComplete /\ [][NextComplete]_vars

\* One run of relistOpskinsItems (lines 865-917) over what the marketplace
\* holds: opskins.sales is the answer of getSales, each sale with the time it
\* was listed, opskins.timestamp the time of the run
RelistJob == 1
ListTime == 200
SalesListed ==
  { [j \in 1..Len(sales) |-> sales[j] @@ [list_time |-> ListTime]] : sales \in Sales }

InitRelist ==
  /\ subject = <<"deposit", 1>>
  /\ steamID = [m \in Merchants |-> TRUE]
  /\ clock = 0
  /\ users = InitUsers
  /\ trade_deposits = InitDeposits
  /\ trade_withdrawals = InitWithdrawals
  /\ pc = [j \in {RelistJob} |-> "idle"]
  /\ loc = [j \in {RelistJob} |-> LocInit]
  /\ delivered = 0
  /\ offers = <<>>
  /\ pollData = <<>>
  /\ pollDataFile = <<>>
  /\ restarts = 0
  /\ tasks = {}
  /\ opskins \in { [sales |-> sales, timestamp |-> timestamp] @@ o :
                     sales \in SalesListed, timestamp \in Timestamps, o \in InitOpskinsMarket }
  /\ listed = {}
  /\ inventory = <<>>
  /\ session = InitSession
  /\ listener = Listening

\* lines 874-878, 881-885: getLowestPrices or getSales answers an error
relistFails ==
  /\ pc[RelistJob] = "idle"
  /\ pc' = [pc EXCEPT ![RelistJob] = "r_failed"]
  /\ UNCHANGED <<subject, listener, inventory, session, steamID, clock, dbVars, loc, delivered, platformVars,
                 restarts, tasks, marketVars>>

\* lines 887-914: the loop over the sales and the call of editPrices
relistEdits ==
  /\ pc[RelistJob] = "idle"
  /\ opskins.key
  /\ pc' = [pc EXCEPT ![RelistJob] = "r_done"]
  /\ listed' = Range(RelistLoop(opskins.sales, 1, <<>>, opskins.priceData, opskins.timestamp))
  /\ UNCHANGED <<subject, listener, inventory, session, steamID, clock, dbVars, loc, delivered, platformVars,
                 restarts, tasks, opskins>>

NextRelist == relistFails \/ relistEdits

SpecRelist == InitRelist /\ [][NextRelist]_vars

\* One call of _listItemsToOpskins (lines 969-1010) on the items of the
\* variable inventory; opskins.liimt is the answer of getListingLimit
ListCall == 1
ListingLimits == {0, 1, 3}

InitList ==
  /\ subject = <<"deposit", 1>>
  /\ steamID = [m \in Merchants |-> TRUE]
  /\ clock = 0
  /\ users = InitUsers
  /\ trade_deposits = InitDeposits
  /\ trade_withdrawals = InitWithdrawals
  /\ pc = [c \in {ListCall} |-> "idle"]
  /\ loc = [c \in {ListCall} |-> LocInit]
  /\ delivered = 0
  /\ offers = <<>>
  /\ pollData = <<>>
  /\ pollDataFile = <<>>
  /\ restarts = 0
  /\ tasks = {}
  /\ opskins \in { [liimt |-> liimt] @@ o : liimt \in ListingLimits, o \in InitOpskinsMarket }
  /\ listed = {}
  /\ inventory \in MerchantInventories \ {<<>>}
  /\ session = InitSession
  /\ listener = Listening

\* lines 971-974, 978-986: a query answers an error, the limit is not positive,
\* or no safe price is cached
listQueryFails ==
  /\ pc[ListCall] = "idle"
  /\ pc' = [pc EXCEPT ![ListCall] = "l_failed"]
  /\ UNCHANGED <<subject, listener, inventory, session, steamID, clock, dbVars, loc, delivered, platformVars,
                 restarts, tasks, marketVars>>

\* lines 987-1008: the loop over the items and the call of _listItems; a throw
\* in the loop rejects the promise of the async callback and nothing is listed
listLoop ==
  /\ pc[ListCall] = "idle"
  /\ opskins.liimt > 0
  /\ LET sp == getDbCentPrices(opskins.cache)
         r  == ListLoop(inventory, 1, <<>>, opskins.priceData, opskins.liimt, sp.price) IN
       /\ ~sp.null
       /\ IF r.threw
            THEN pc' = [pc EXCEPT ![ListCall] = "l_threw"] /\ UNCHANGED listed
            ELSE pc' = [pc EXCEPT ![ListCall] = "l_done"] /\ listed' = Range(r.listItems)
  /\ UNCHANGED <<subject, listener, inventory, session, steamID, clock, dbVars, loc, delivered, platformVars,
                 restarts, tasks, opskins>>

NextList == listQueryFails \/ listLoop

SpecList == InitList /\ [][NextList]_vars

\* The notification listener of each process (lines 156-193): start() calls
\* _startListening, and so does the handler of the connection's error event
MaxListenerErrors == 2

InitListener ==
  /\ subject \in {<<"deposit", 1>>, <<"withdrawal", 1>>}
  /\ steamID = [m \in Merchants |-> TRUE]
  /\ clock = 0
  /\ users = InitUsers
  /\ trade_deposits = InitDeposits
  /\ trade_withdrawals = InitWithdrawals
  /\ pc = [m \in Merchants |-> "idle"]
  /\ loc = [m \in Merchants |-> LocInit]
  /\ delivered = 0
  /\ offers = <<>>
  /\ pollData = <<>>
  /\ pollDataFile = <<>>
  /\ restarts = 0
  /\ tasks = {}
  /\ opskins \in {x \in InitOpskins : x.key}
  /\ listed = {}
  /\ inventory = <<>>
  /\ session = InitSession
  /\ listener = [m \in Merchants |-> [pc |-> "l_connect", errors |-> 0]]

ListenerFrame ==
  UNCHANGED <<subject, inventory, session, steamID, clock, dbVars, pc, loc, delivered, platformVars,
              restarts, tasks, marketVars>>

\* line 159: this._listener = await this._db.connect({ direct: true }); a
\* rejection ends the call, which nobody awaits or repeats
ListenerConnect(m) ==
  /\ listener[m].pc = "l_connect"
  /\ \E ok \in BOOLEAN :
       listener' = [listener EXCEPT ![m].pc = IF ok THEN "l_listen" ELSE "l_dead"]
  /\ ListenerFrame

\* lines 161-192: both LISTEN commands, then the notification and the error
\* handlers are attached to the new connection
ListenerListen(m) ==
  /\ listener[m].pc = "l_listen"
  /\ \E ok \in BOOLEAN :
       listener' = [listener EXCEPT ![m].pc = IF ok THEN "listening" ELSE "l_dead"]
  /\ ListenerFrame

\* lines 189-192: the connection emits an error; the handler logs it and
\* calls _startListening again
ListenerError(m) ==
  /\ listener[m].pc = "listening"
  /\ listener[m].errors < MaxListenerErrors
  /\ listener' = [listener EXCEPT ![m].pc = "l_connect", ![m].errors = @ + 1]
  /\ ListenerFrame

\* lines 166-187: a notification reaches a subscribed process, whose handler
\* starts the workflow of the channel
ListenerNotification(m) ==
  /\ listener[m].pc = "listening"
  /\ StartDeposit(m) \/ StartWithdrawal(m)

NextListener ==
  \/ \E m \in Merchants : ListenerConnect(m)
  \/ \E m \in Merchants : ListenerListen(m)
  \/ \E m \in Merchants : ListenerError(m)
  \/ \E m \in Merchants : ListenerNotification(m)

\* a pending connect or LISTEN is answered, one way or the other
ListenerFairness ==
  \A m \in Merchants : WF_vars(ListenerConnect(m)) /\ WF_vars(ListenerListen(m))

SpecListener == InitListener /\ [][NextListener]_vars /\ ListenerFairness

\* The trade offers the marketplace sends to the bot, and what the bot answers:
\* kind "withdraw" is an offer of withdrawInventoryItems (_withdrawOffer),
\* "inventory" the offer of an item of the marketplace inventory
\* (_checkOpskinsUserInventory), "pickup" and "return" the types of the active
\* offers of getActiveTradeOffers (_retryFailledDeposits)
MarketOfferKinds == {"withdraw", "inventory", "pickup", "return"}
GiveSets == {{}, {"i1"}}
ReceiveSets == {{}, {"p1"}}
MarketOffers ==
  { [sender |-> TheMerchant, state |-> Active, created |-> 0, itemsToReceive |-> receive,
     itemsToGive |-> give, kind |-> kind, trade |-> NULL] :
    kind \in MarketOfferKinds, give \in GiveSets, receive \in ReceiveSets }

InitOffers ==
  /\ subject = <<"withdrawal", 1>>
  /\ steamID = [m \in Merchants |-> TRUE]
  /\ clock = 0
  /\ users = InitUsers
  /\ trade_deposits = InitDeposits
  /\ trade_withdrawals = InitWithdrawals
  /\ pc = [m \in Merchants |-> "idle"]
  /\ loc = [m \in Merchants |-> LocInit]
  /\ delivered = 0
  /\ offers \in [1..2 -> MarketOffers]
  /\ pollData = <<>>
  /\ pollDataFile = <<>>
  /\ restarts = 0
  /\ tasks = {}
  /\ opskins \in {x \in InitOpskins : x.key}
  /\ listed = {}
  /\ inventory = <<>>
  /\ session = InitSession
  /\ listener = Listening

\* offer.accept / offer.decline has answered without error
Answer(o, state) ==
  /\ offers' = [offers EXCEPT ![o].state = state]
  /\ UNCHANGED <<subject, listener, inventory, session, steamID, clock, dbVars, pc, loc, delivered,
                 pollData, pollDataFile, restarts, tasks, marketVars>>

\* _withdrawOffer, lines 1207-1221
withdrawOffer(o) ==
  /\ offers[o].kind = "withdraw" /\ offers[o].state = Active
  /\ IF offers[o].itemsToGive # {} THEN Answer(o, Declined) ELSE Answer(o, Accepted)

\* _checkOpskinsUserInventory, lines 1326-1338
checkOpskinsUserInventory(o) ==
  /\ offers[o].kind = "inventory" /\ offers[o].state = Active
  /\ IF offers[o].itemsToGive # {} THEN Answer(o, Declined) ELSE Answer(o, Accepted)

\* _withdrawFailledOffer, lines 1228-1244, with the type of the active offer
withdrawFailledOffer(o) ==
  /\ offers[o].kind \in {"pickup", "return"} /\ offers[o].state = Active
  /\ LET type == offers[o].kind
         give == offers[o].itemsToGive
         receive == offers[o].itemsToReceive IN
       IF \/ type = "pickup" /\ give = {} /\ receive # {}
          \/ type = "return" /\ give # {} /\ receive = {}
         THEN Answer(o, Declined)
         ELSE Answer(o, Accepted)

NextOffers ==
  \/ \E o \in OfferIds : withdrawOffer(o)
  \/ \E o \in OfferIds : checkOpskinsUserInventory(o)
  \/ \E o \in OfferIds : withdrawFailledOffer(o)

SpecOffers == InitOffers /\ [][NextOffers]_vars

----------------------------------------------------------------------------
(* Properties *)

\* a call of startDeposit or startWithdrawal of merchant m is in progress
InFlight(m) == pc[m] \notin {"idle", "dead", "hung"}

\* the subject has been claimed by a merchant
Claimed ==
  IF Kind = "deposit" THEN trade_deposits[Id].acknowledged_at # NULL
                      ELSE trade_withdrawals[Id].merchant_steam_id # UNCLAIMED

\* the rows of both tables
AllRows == {trade_deposits[id] : id \in TradeIds} \cup {trade_withdrawals[id] : id \in TradeIds}

\* C1: when several merchants run startDeposit for one deposit, in any
\* interleaving, the merchant in the steps after the claim is the one stored in
\* merchant_steam_id (so at most one), the stored merchant never changes, and a
\* startDeposit that finds the deposit acknowledged returns and writes nothing
C1_OneDepositClaimant ==
  /\ [](Kind = "deposit" =>
          \A m \in Merchants : InFlight(m) => trade_deposits[Id].merchant_steam_id = m)
  /\ [][ /\ trade_deposits[Id].merchant_steam_id # NULL
              => trade_deposits'[Id].merchant_steam_id = trade_deposits[Id].merchant_steam_id
         /\ \A m \in Merchants :
              (trade_deposits[Id].acknowledged_at # NULL /\ StartDeposit(m))
                 => (pc'[m] = "idle" /\ UNCHANGED <<dbVars, offers, listed>>) ]_vars

\* every merchant is connected and has been notified of the deposit; one has
\* claimed it and is at work, the other has returned
C1_Witness ==
  /\ Kind = "deposit" /\ delivered >= NumMerchants
  /\ \A m \in Merchants : steamID[m]
  /\ \E m \in Merchants :
       /\ pc[m] = "d_send" /\ trade_deposits[Id].merchant_steam_id = m
       /\ \A n \in Merchants \ {m} : pc[n] = "idle"

\* C2: when several merchants run startWithdrawal for one withdrawal, the
\* merchant in the steps after _lockWithdrawal is the one stored in
\* merchant_steam_id (so at most one); a _lockWithdrawal that changed the row
\* proceeds as the stored merchant, one that did not returns with no write at
\* all
C2_OneWithdrawalClaimant ==
  /\ [](Kind = "withdrawal" =>
          \A m \in Merchants :
            (InFlight(m) /\ pc[m] # "w_lock") => trade_withdrawals[Id].merchant_steam_id = m)
  /\ [][ \A m \in Merchants :
           WithdrawalLock(m) =>
             IF trade_withdrawals' # trade_withdrawals
               THEN pc'[m] = "w_select" /\ trade_withdrawals'[Id].merchant_steam_id = m
               ELSE pc'[m] = "idle" /\ UNCHANGED <<dbVars, offers, listed>> ]_vars

\* one merchant is sourcing the withdrawal it has claimed while another, whose
\* balance covers the total too, is about to run its conditional update
C2_Witness ==
  /\ Kind = "withdrawal"
  /\ \E m, n \in Merchants :
       /\ m # n
       /\ pc[m] = "b_search" /\ trade_withdrawals[Id].merchant_steam_id = m
       /\ pc[n] = "w_lock" /\ loc[n].balance >= trade_withdrawals[Id]._total

\* C3: at most one offer is transmitted for a transaction id, and once the
\* transaction is claimed a startDeposit or startWithdrawal for it returns at
\* its claim: it changes no stored field and transmits no offer
C3_ClaimedOnce ==
  /\ [](\A k \in Kinds, id \in TradeIds :
          Cardinality({o \in OfferIds : offers[o].kind = k /\ offers[o].trade = id}) <= 1)
  /\ [][ Claimed =>
           \A m \in Merchants :
             /\ StartDeposit(m) => (pc'[m] = "idle" /\ UNCHANGED <<dbVars, offers>>)
             /\ StartWithdrawal(m) =>
                  (pc'[m] \in {"idle", "w_lock"} /\ UNCHANGED <<dbVars, offers>>)
             /\ WithdrawalLock(m) => (pc'[m] = "idle" /\ UNCHANGED <<dbVars, offers>>) ]_vars

\* the offer of the withdrawal has been transmitted and every notification has
\* been handled: the later calls have returned
C3_Witness ==
  /\ Kind = "withdrawal" /\ Len(offers) = 1 /\ delivered = MaxNotifications
  /\ \A m \in Merchants : steamID[m] /\ ~InFlight(m)
  /\ trade_withdrawals[Id].offered_at # NULL

\* C4: the balance of the depositing user is its initial balance, or that plus
\* _total + _bonus once the deposit is credited: it is never credited twice,
\* also when the change to Accepted is delivered twice
C4_CreditedOnce ==
  Kind = "deposit" =>
    LET d == trade_deposits[Id]
        before == InitUsers[d.user_steam_id].balance
        now == users[d.user_steam_id].balance IN
      /\ now \in {before, before + d._total + d._bonus}
      /\ d.completed_at # NULL => now = before + d._total + d._bonus

\* C5: no step of startWithdrawal before the conditional update writes the
\* withdrawal, the update of a merchant whose balance read is below _total
\* leaves the table unchanged, and the withdrawal becomes claimed only by a
\* merchant whose balance read is at least _total
C5_BalanceCoversTotal ==
  [][ /\ \A m \in Merchants :
           /\ StartWithdrawal(m) => UNCHANGED dbVars
           /\ (WithdrawalLock(m) /\ loc[m].balance < trade_withdrawals[Id]._total)
                 => UNCHANGED dbVars
      /\ ( /\ trade_withdrawals[Id].merchant_steam_id = UNCLAIMED
           /\ trade_withdrawals'[Id].merchant_steam_id # UNCLAIMED )
           => \E m \in Merchants :
                /\ pc[m] = "w_lock" /\ loc[m].balance >= trade_withdrawals[Id]._total
                /\ trade_withdrawals'[Id].merchant_steam_id = m ]_vars

\* a merchant has claimed the withdrawal with a balance equal to its total,
\* after a merchant that read less was refused
C5_Witness ==
  /\ Kind = "withdrawal" /\ delivered >= 2
  /\ \A m \in Merchants : steamID[m]
  /\ \E m \in Merchants :
       /\ pc[m] = "w_select" /\ trade_withdrawals[Id].merchant_steam_id = m
       /\ loc[m].balance = trade_withdrawals[Id]._total

\* C6: when the sourcing of a withdrawal is over with fewer purchases than
\* items requested, no offer has been transmitted and the withdrawal is
\* recorded as failed
C6_AllOrNothing ==
  Kind = "withdrawal" =>
    \A m \in Merchants :
      ( /\ pc[m] \in {"hung", "w_check"}
        /\ Len(loc[m].purchases) < Len(trade_withdrawals[Id]._item_names) )
        => (offers = <<>> /\ trade_withdrawals[Id].failed_at # NULL)

\* the safe price of an item, in cents
SafePrice(item) == getDbCentPrices(opskins.cache).price[item]

Undervalued(name) ==
  /\ name \in DOMAIN getDbCentPrices(opskins.cache).price
  /\ opskins.priceData[name].price * 100 <= SafePrice(name) * 65

\* C8 as stated: every price sent, by the listing after an acquisition or by
\* the hourly job, is at most 1.05 times the external lowest price of the
\* name, and at least the safe price when the name is undervalued
C8_PriceBounds ==
  \A l \in listed :
    /\ l.price * 100 <= opskins.priceData[l.name].price * 105
    /\ Undervalued(l.name) => l.price >= SafePrice(l.name)

\* C8: a price sent by the listing after an acquisition is the safe price when
\* the name is undervalued, and else at most 1.05 times the external lowest
\* price rounded up; a price sent by the hourly job is the external lowest
\* price less one
C8_ListAndRelistPrices ==
  \A l \in listed :
    LET op == opskins.priceData[l.name].price IN
      IF l.via = "list"
        THEN IF Undervalued(l.name)
               THEN l.price = SafePrice(l.name)
               ELSE l.price <= CeilDiv(op * 105, 100)
        ELSE l.price = op - 1

\* an undervalued item has been listed
C8_Witness ==
  \E l \in listed : l.via = "list" /\ Undervalued(l.name)

\* C9: no trade is both completed and failed, a completed trade has been
\* offered, and no step writes offered_at or completed_at of a failed trade
C9_Lifecycle ==
  /\ [](\A r \in AllRows :
          /\ ~(r.completed_at # NULL /\ r.failed_at # NULL)
          /\ r.completed_at # NULL => r.offered_at # NULL)
  /\ [][ \A id \in TradeIds :
           /\ trade_deposits[id].failed_at # NULL
                => /\ trade_deposits'[id].offered_at = trade_deposits[id].offered_at
                   /\ trade_deposits'[id].completed_at = trade_deposits[id].completed_at
           /\ trade_withdrawals[id].failed_at # NULL
                => /\ trade_withdrawals'[id].offered_at = trade_withdrawals[id].offered_at
                   /\ trade_withdrawals'[id].completed_at = trade_withdrawals[id].completed_at
       ]_vars

\* an offered trade has failed and, after a restart, a handler of its offer is
\* at work again
C9_Witness ==
  /\ restarts > 0
  /\ \E r \in AllRows : r.failed_at # NULL /\ r.offered_at # NULL
  /\ \E t \in tasks : t.pc = "c_start"

\* C10: no step changes failed_at or failure_details of a trade whose
\* failed_at is set
C10_FailedOnce ==
  [][ \A id \in TradeIds :
        /\ trade_deposits[id].failed_at # NULL
             => /\ trade_deposits'[id].failed_at = trade_deposits[id].failed_at
                /\ trade_deposits'[id].failure_details = trade_deposits[id].failure_details
        /\ trade_withdrawals[id].failed_at # NULL
             => /\ trade_withdrawals'[id].failed_at = trade_withdrawals[id].failed_at
                /\ trade_withdrawals'[id].failure_details = trade_withdrawals[id].failure_details
    ]_vars

\* C11: a deposit of a user without trade link never has an offer; once its
\* claimant's startDeposit is over the deposit is failed, and its
\* failure_details are exactly 'Please set your Trade URL to proceed'
C11_NoTradeLink ==
  (Kind = "deposit" /\ ~users[trade_deposits[Id].user_steam_id].trade_link_url) =>
    LET d == trade_deposits[Id] IN
      /\ offers = <<>> /\ d.offered_at = NULL /\ d.steam_offer_id = NULL
      /\ d.failed_at # NULL => d.failure_details = "Please set your Trade URL to proceed"
      /\ \A m \in Merchants :
           (d.acknowledged_at # NULL /\ d.merchant_steam_id = m /\ ~InFlight(m))
             => d.failed_at # NULL

\* the deposit of the user without trade link has been claimed and failed
C11_Witness ==
  /\ Kind = "deposit" /\ ~users[trade_deposits[Id].user_steam_id].trade_link_url
  /\ trade_deposits[Id].failed_at # NULL
  /\ \A m \in Merchants : ~InFlight(m)

\* C12: for a withdrawal with no item or with more than MAX_WITHDRAWAL_SIZE
\* items no marketplace call is made (no balance is read, nothing is searched
\* or bought), the only failure recorded is the missing-items, respectively the
\* count-limit, message, and the withdrawal is failed once its claimant's
\* startWithdrawal is over
C12_ItemCountValidated ==
  LET n == Len(trade_withdrawal_items[Id])
      w == trade_withdrawals[Id] IN
    (Kind = "withdrawal" /\ (n = 0 \/ n > MAX_WITHDRAWAL_SIZE)) =>
      /\ \A m \in Merchants :
           pc[m] \notin {"w_lock", "b_balance", "b_prices", "b_search", "b_buy", "b_withdraw"}
      /\ w.failed_at # NULL =>
           w.failure_details =
             IF n = 0 THEN "Could not retrieve the items. Please try again later."
                      ELSE "Please choose a maximum of 3 items."
      /\ \A m \in Merchants :
           (w.merchant_steam_id = m /\ ~InFlight(m)) => w.failed_at # NULL

\* C13: the search for a name is at its first, second or third attempt and a
\* purchase is made from the result of the attempt that succeeded; a step at
\* the third attempt never leaves the task searching the same name again; a
\* purchase takes its listing from the results the task holds; and the items
\* are withdrawn, fetched and offered only with one purchase for every item
C13_ThreeSearchAttempts ==
  /\ [](\A m \in Merchants :
          /\ pc[m] = "b_search" => loc[m].k \in 1..3
          /\ pc[m] = "b_buy" => (loc[m].attempt \in 1..3 /\ loc[m].results # <<>>)
          /\ \A b \in Range(loc[m].purchases) : b.attempt \in 1..3
          /\ (Kind = "withdrawal" /\ pc[m] \in {"b_withdraw", "b_inv", "b_inv_reconnect"})
               => Len(loc[m].purchases) = Len(trade_withdrawal_items[Id]))
  /\ [][ \A m \in Merchants :
           /\ (BuySearch(m) /\ loc[m].k = 3)
                => (pc'[m] # "b_search" \/ loc'[m].i = loc[m].i + 1)
           /\ (BuyItem(m) /\ Len(loc'[m].purchases) = Len(loc[m].purchases) + 1)
                => LET b == loc'[m].purchases[Len(loc'[m].purchases)] IN
                     /\ b.attempt = loc[m].attempt
                     /\ b.amount = loc[m].results[b.rank].amount
           /\ (pc[m] # "w_send" /\ pc'[m] = "w_send") => pc[m] = "b_inv"
           /\ (Kind = "withdrawal" /\ offers' # offers /\ Len(offers') > Len(offers))
                => \E n \in Merchants : pc[n] = "w_send" ]_vars

\* two searches failed, the third answered, and the listing bought comes from it
C13_Witness ==
  \E m \in Merchants :
    /\ loc[m].purchases # <<>>
    /\ loc[m].purchases[1].attempt = 3
    /\ pc[m] = "b_inv"

\* the subject is recorded as failed
Failed == Table(Kind)[Id].failed_at # NULL

\* a connected merchant has been handed the notification of the subject: for a
\* deposit every merchant is connected and one was notified, for a withdrawal
\* a merchant holds the answer of its balance query
Handed ==
  IF Kind = "deposit" THEN delivered > 0 /\ \A m \in Merchants : steamID[m]
                      ELSE \E m \in Merchants : pc[m] = "w_lock"

\* C14: once a connected merchant has been handed the notification of a
\* transaction, the transaction is eventually claimed or failed
C14_EventuallyClaimed == Handed ~> (Claimed \/ Failed)

\* C15: a call fail(table, db, id, e) updates the named table only, there the
\* row of the given id only and of it failed_at and failure_details only:
\* failed_at becomes the time of the call and failure_details e.message of an
\* Error, e itself when it is a string and the JSON text of e otherwise
FailCalled(c) ==
  LET named == IF c.table = "trade_deposits" THEN trade_deposits ELSE trade_withdrawals
      after == IF c.table = "trade_deposits" THEN trade_deposits' ELSE trade_withdrawals'
      other == IF c.table = "trade_deposits" THEN trade_withdrawals ELSE trade_deposits
      otherAfter == IF c.table = "trade_deposits" THEN trade_withdrawals' ELSE trade_deposits'
      text == IF c.e.type \in {"Error", "string"} THEN c.e.text ELSE "{" \o c.e.text \o "}"
  IN  /\ otherAfter = other
      /\ DOMAIN after = DOMAIN named
      /\ \A r \in DOMAIN named :
            IF r = c.id
              THEN after[r] = [named[r] EXCEPT !.failed_at = clock', !.failure_details = text]
              ELSE after[r] = named[r]
      /\ clock' = clock + 1

C15_FailUpdatesOneRow == [][\A c \in tasks' : FailCalled(c)]_vars

C15_Witness ==
  /\ tasks = {[table |-> "trade_withdrawals", id |-> 2, e |-> Obj("\"foo\":\"bar\"")]}
  /\ trade_withdrawals[2].failure_details = "{\"foo\":\"bar\"}"
  /\ trade_withdrawals[2].failed_at = clock
  /\ trade_deposits[2].failed_at = 1
  /\ trade_deposits[2].failure_details = "whoops"

\* the calls whose withdrawal the merchant has claimed and is still sourcing
Sourcing ==
  {c \in Calls : /\ trade_withdrawals[c].merchant_steam_id = TheMerchant
                 /\ pc[c] \in {"w_checks", "b_balance", "b_search", "b_buy"}}

RECURSIVE Paid(_, _)
Paid(purchases, j) ==
  IF j > Len(purchases) THEN 0 ELSE purchases[j].amount + Paid(purchases, j + 1)

\* the totals of the withdrawals of the calls S
RECURSIVE SumTotals(_)
SumTotals(S) ==
  IF S = {} THEN 0
  ELSE LET c == CHOOSE x \in S : TRUE IN trade_withdrawals[c]._total + SumTotals(S \ {c})

\* what the calls S have paid for their purchases
RECURSIVE SumSpent(_)
SumSpent(S) ==
  IF S = {} THEN 0
  ELSE LET c == CHOOSE x \in S : TRUE IN Paid(loc[c].purchases, 1) + SumSpent(S \ {c})

\* C16: while one merchant handles several withdrawals at once, the totals of
\* the withdrawals it has claimed and not finished sourcing add up to no more
\* than the balance of the account (with what those calls have spent of it)
C16_ClaimsWithinBalance ==
  SumTotals(Sourcing) <= opskins.balance + SumSpent(Sourcing)

\* C17: no unit of the merchant's inventory is attached to the offers of two
\* withdrawals
C17_NoUnitInTwoOffers ==
  \A a, b \in OfferIds :
    a # b /\ offers[a].trade # offers[b].trade
      => offers[a].itemsToGive \cap offers[b].itemsToGive = {}

\* the subject's row has been offered, resp. completed
Offered == Table(Kind)[Id].offered_at # NULL
Completed == Table(Kind)[Id].completed_at # NULL

\* C18: whenever the offer of a trade reaches Accepted the trade is eventually
\* completed, in whatever order the events and the storing of the offer's
\* reference come and whatever states the offer went through before
C18_AcceptedCompletes ==
  (\E o \in OfferIds : offers[o].state = Accepted) ~> Completed

\* C19: every withdrawal a merchant has claimed is eventually offered or failed
C19_ClaimedWithdrawalSettles ==
  (Kind = "withdrawal" /\ Claimed) ~> (Kind = "withdrawal" /\ (Offered \/ Failed))

\* C20: every deposit a merchant has claimed is eventually offered or failed
C20_ClaimedDepositSettles ==
  (Kind = "deposit" /\ Claimed) ~> (Kind = "deposit" /\ (Offered \/ Failed))

\* C21: a search that succeeds with no listing for the name buys nothing for
\* it and the workflow goes on to the shortfall and the recorded failure: no
\* step of the search leaves the call stopped for ever
C21_EmptySearchGoesOn ==
  [][\A m \in Merchants : pc[m] = "b_search" => pc'[m] # "hung"]_vars

\* C22: when the fetch of the bot's inventory during sourcing fails, and fails
\* again after the one session refresh, the workflow goes on to record the
\* failure of the withdrawal: no step of the fetch leaves the call stopped
C22_SecondInventoryFailureFails ==
  [][\A m \in Merchants : pc[m] = "b_inv" => pc'[m] # "hung"]_vars

\* C23: a deposit whose retried inventory fetch, after the session refresh,
\* answered every requested asset is not on its way to being marked failed
C23_RetriedFetchContinues ==
  \A m \in Merchants :
    ~(/\ Kind = "deposit" /\ pc[m] = "fail"
      /\ loc[m].fetched = trade_deposit_items[Id])

\* C24: however many workflows ask for a session refresh while one is in
\* flight, a single relogin is outstanding at the platform
C24_OneReloginInFlight == session.logOns <= 1

\* the handlers of sentOfferChanged called with a previous state that is neither
\* Active nor CreatedNeedsConfirmation
Ignorable == {t \in tasks : t.offer # NULL /\ t.oldState \notin COMPLETABLE_STATES}

\* C25: a handler called with a previous state that is neither Active nor
\* CreatedNeedsConfirmation returns at its first step, whatever the new state:
\* it never gets to a later step, and the step that ends it changes no row of
\* the store, no balance and takes no timestamp
C25_OtherPreviousStateIgnored ==
  /\ [](\A t \in Ignorable : t.pc = "c_start")
  /\ [][\A t \in Ignorable :
          t \notin tasks'
            => /\ UNCHANGED <<users, trade_deposits, trade_withdrawals, clock, listed>>
               /\ tasks' \subseteq tasks]_vars

\* an event Accepted with previous state InEscrow for the stored offer of the
\* subject is being handled
C25_Witness ==
  \E t \in tasks :
    /\ t.oldState = InEscrow /\ t.state = Accepted
    /\ Table(Kind)[Id].steam_offer_id = t.offer

\* what has become, after a step, of the handler t that was at its first step
Continued(t) ==
  {u \in tasks' : /\ u.offer = t.offer /\ u.oldState = t.oldState /\ u.state = t.state
                  /\ u.pc # "c_start"}

\* C26: a handler called with previous state Active or CreatedNeedsConfirmation
\* goes on to record the failure with the message of the new state when that
\* is Countered, Expired, Cancelled, Declined, InvalidItems or
\* CanceledBySecondFactor, to complete the trade when it is Accepted (crediting
\* the balance for a deposit only), and ends without writing for any other state
C26_DispatchOnNewState ==
  [][/\ \A t \in tasks :
          t.pc = "c_start" /\ t.oldState \in COMPLETABLE_STATES /\ t \notin tasks'
          /\ restarts' = restarts
            => IF t.state \in {Countered, Expired, Cancelled, Declined, InvalidItems,
                               CanceledBySecondFactor}
                 THEN \E u \in Continued(t) : u.pc = "c_fail"
                 ELSE IF t.state = Accepted
                   THEN \E u \in Continued(t) :
                          u.pc = IF t.deposit THEN "c_credit" ELSE "c_mark"
                   ELSE Continued(t) = {} /\ UNCHANGED <<dbVars, clock>>
     /\ \A t \in tasks :
          t.pc = "c_fail" /\ t \notin tasks' /\ restarts' = restarts
            => LET row == IF t.deposit THEN trade_deposits'[t.id] ELSE trade_withdrawals'[t.id]
               IN  /\ row.failed_at = clock'
                   /\ row.failure_details = StateFailure(t.state)
                   /\ StateFailure(t.state) # ""
                   /\ UNCHANGED users
     /\ \A t \in tasks :
          t.pc = "c_mark" /\ t \notin tasks' /\ restarts' = restarts
            => LET row == IF t.deposit THEN trade_deposits'[t.id] ELSE trade_withdrawals'[t.id]
               IN  row.completed_at = clock' /\ UNCHANGED users
     /\ \A t \in tasks :
          t.pc = "c_credit" /\ t \notin tasks' /\ restarts' = restarts
            => /\ t.deposit
               /\ LET d == trade_deposits[t.id] IN
                    users'[d.user_steam_id].balance =
                      users[d.user_steam_id].balance + d._total + d._bonus]_vars

\* the errors of the transmission and of the confirmation of an offer
OfferErrors == {Err("send error"), Err("confirm error")}

\* C27: offered_at and the offer reference are stored together, and only for
\* an offer that was transmitted for this trade (and, for a withdrawal,
\* confirmed); when the transmission or the confirmation fails the trade is
\* marked failed with the detail of the error and offered_at stays unset
C27_OfferedAfterTransmission ==
  /\ [](LET row == Table(Kind)[Id] IN
          /\ (row.offered_at # NULL) = (row.steam_offer_id # NULL)
          /\ row.offered_at # NULL
               => /\ row.steam_offer_id \in OfferIds
                  /\ offers[row.steam_offer_id].trade = Id
                  /\ offers[row.steam_offer_id].kind = Kind
                  /\ offers[row.steam_offer_id].created = row.offered_at
                  /\ Kind = "withdrawal"
                       => offers[row.steam_offer_id].state # CreatedNeedsConfirmation
          /\ \A m \in Merchants : pc[m] = "fail" /\ loc[m].msg \in OfferErrors
               => row.offered_at = NULL
          /\ row.failure_details \in {e.text : e \in OfferErrors} => row.offered_at = NULL)
  /\ [][\A m \in Merchants :
          /\ (pc[m] \in {"d_send", "w_send", "w_confirm"} /\ pc'[m] # pc[m]
               /\ pc'[m] \notin {"d_mark", "w_confirm", "w_mark"} /\ restarts' = restarts)
               => (pc'[m] = "fail" /\ loc'[m].msg \in OfferErrors)
          /\ (pc[m] = "fail" /\ loc[m].msg \in OfferErrors /\ pc'[m] # "fail"
               /\ restarts' = restarts)
               => /\ Table(Kind)'[Id].failed_at = clock'
                  /\ Table(Kind)'[Id].failure_details = loc[m].msg.text
                  /\ Table(Kind)'[Id].offered_at = NULL]_vars

\* a withdrawal whose offer was sent and whose confirmation failed is recorded
\* as failed and not as offered
C27_Witness ==
  /\ Kind = "withdrawal"
  /\ trade_withdrawals[Id].failure_details = "confirm error"
  /\ trade_withdrawals[Id].offered_at = NULL
  /\ offers # <<>>

\* the states in which an offer is still open on the platform
OpenStates == {CreatedNeedsConfirmation, Active, InEscrow}

\* C28: a trade its start workflow has marked failed (failed with no offer
\* reference stored) has no offer left open on the platform
C28_NoOpenOfferOfFailedTrade ==
  Failed /\ Table(Kind)[Id].steam_offer_id = NULL
    => \A o \in OfferIds :
         offers[o].kind = Kind /\ offers[o].trade = Id => offers[o].state \notin OpenStates

\* the failure recorded when the profile fetch failed twice (lines 274-278, 516-521)
DetailsFailure ==
  IF Kind = "deposit"
    THEN "We were unable to retrieve your details. Please try creating a new deposit. Error: details error"
    ELSE "You are not currently able to trade. Please consult your Steam profile for more information. Error: details error"

\* the calls at the profile fetch, resp. at the session refresh after its failure
AtDetails(m) == pc[m] \in {"d_details", "w_details"}
AtDetailsReconnect(m) == pc[m] \in {"d_details_reconnect", "w_details_reconnect"}

\* C29: the profile fetch of a workflow is attempt 1 or 2, with one session
\* refresh after the first failure; the failure of the fetch is recorded only
\* after the second attempt and then no offer exists for the trade; an attempt
\* that answers sends the workflow on with its answer
C29_ProfileFetchTwice ==
  /\ [](/\ \A m \in Merchants :
             /\ AtDetails(m) => loc[m].k \in {1, 2}
             /\ AtDetailsReconnect(m) => loc[m].k = 1
             /\ pc[m] = "fail" /\ loc[m].msg.text = DetailsFailure
                  => \A o \in OfferIds : ~(offers[o].kind = Kind /\ offers[o].trade = Id)
        /\ Table(Kind)[Id].failure_details = DetailsFailure
             => /\ \A o \in OfferIds : ~(offers[o].kind = Kind /\ offers[o].trade = Id)
                /\ Table(Kind)[Id].offered_at = NULL)
  /\ [][\A m \in Merchants :
          /\ (AtDetails(m) /\ pc'[m] # pc[m] /\ restarts' = restarts)
               => \/ /\ loc[m].k = 1 /\ AtDetailsReconnect(m)'
                     /\ loc'[m] = loc[m] /\ UNCHANGED <<dbVars, offers>>
                  \/ /\ loc[m].k = 2 /\ pc'[m] = "fail" /\ loc'[m].msg.text = DetailsFailure
                  \/ /\ pc'[m] = "fail"
                     /\ loc'[m].msg \in {DepositRestriction(d) : d \in UserDetails}
                                        \cup {WithdrawalRestriction(d) : d \in UserDetails}
                     /\ loc'[m].msg.text # ""
                  \/ pc'[m] \in {"d_send", "w_items"}
          /\ (AtDetailsReconnect(m) /\ pc'[m] # pc[m] /\ restarts' = restarts)
               => AtDetails(m)' /\ loc'[m].k = 2 /\ UNCHANGED <<dbVars, offers>>]_vars

\* a deposit is recorded as failed after the second failure of the profile fetch
C29_Witness ==
  /\ Kind = "deposit"
  /\ trade_deposits[Id].failure_details = DetailsFailure
  /\ trade_deposits[Id].failed_at # NULL
  /\ offers = <<>>

\* the profile reports probation or an escrow period
Restricted(details) == details.probation \/ details.escrowDays # 0

\* the failure recorded for a restricted profile in the workflow of the subject
RestrictionText(details) ==
  IF details.probation
    THEN "You are not currently able to trade. Please consult your Steam profile for more information."
    ELSE IF Kind = "deposit"
      THEN "Please enable mobile authenticator and wait for "
             \o ToString(details.escrowDays) \o " days."
      ELSE "You are currently subject to a trade hold for "
             \o ToString(details.escrowDays) \o " days."

RestrictionTexts == {RestrictionText(d) : d \in {x \in UserDetails : Restricted(x)}}

\* the steps of the sourcing on the marketplace
SourcingSteps == {"b_balance", "b_prices", "b_search", "b_buy", "b_withdraw", "b_inv",
                  "b_inv_reconnect"}

\* C30: when the profile fetched reports probation or a non-zero escrow period
\* the workflow goes to record the failure, whose message for an escrow period
\* holds the number of days; a trade failed so has no offer, and the call that
\* fails it has searched and bought nothing
C30_RestrictedProfileFails ==
  /\ [](/\ \A m \in Merchants :
             pc[m] = "fail" /\ loc[m].msg.text \in RestrictionTexts
               => /\ loc[m].purchases = <<>> /\ loc[m].searches = 0
                  /\ \A o \in OfferIds : ~(offers[o].kind = Kind /\ offers[o].trade = Id)
        /\ Table(Kind)[Id].failure_details \in RestrictionTexts
             => /\ Table(Kind)[Id].offered_at = NULL
                /\ \A o \in OfferIds : ~(offers[o].kind = Kind /\ offers[o].trade = Id)
                /\ \A m \in Merchants : pc[m] \notin SourcingSteps)
  /\ [][\A m \in Merchants :
          /\ (AtDetails(m) /\ loc'[m].userDetails # loc[m].userDetails)
               => IF Restricted(loc'[m].userDetails)
                    THEN /\ pc'[m] = "fail"
                         /\ loc'[m].msg.text = RestrictionText(loc'[m].userDetails)
                         /\ UNCHANGED <<dbVars, offers>>
                    ELSE pc'[m] \in {"d_send", "w_items"}
          /\ (pc[m] = "fail" /\ loc[m].msg.text \in RestrictionTexts /\ pc'[m] # pc[m]
              /\ restarts' = restarts)
               => /\ Table(Kind)'[Id].failed_at = clock'
                  /\ Table(Kind)'[Id].failure_details = loc[m].msg.text
                  /\ UNCHANGED offers]_vars

\* a withdrawal is recorded as failed with the escrow message of three days
C30_Witness ==
  /\ Kind = "withdrawal"
  /\ trade_withdrawals[Id].failure_details = "You are currently subject to a trade hold for 3 days."
  /\ trade_withdrawals[Id].failed_at # NULL
  /\ offers = <<>>

\* the names of the units the merchant holds
Held == {inventory[j].market_hash_name : j \in 1..Len(inventory)}

\* C31: a requested item the merchant already holds in its inventory is used
\* directly: no purchase is made on the marketplace for a name that is held
C31_HeldItemsNotBought ==
  [][\A c \in Calls :
       Len(loc'[c].purchases) > Len(loc[c].purchases)
         => loc'[c].purchases[Len(loc'[c].purchases)].item \notin Held]_vars

\* how many entries of a sequence of names, resp. of items, carry the name
CountName(names, n) == Cardinality({j \in 1..Len(names) : names[j] = n})
CountItems(items, n) == Cardinality({j \in 1..Len(items) : items[j].market_hash_name = n})

\* C32: when the inventory fetched holds at least one unit for each requested
\* entry, the filter yields one unit per requested entry, also for a name
\* requested more than once, and the workflow goes on to the offer
C32_OneUnitPerEntry ==
  [][LET l == loc[FilterCall] IN
       pc[FilterCall] = "b_inv"
       /\ (\A n \in Names : CountItems(inventory, n) >= CountName(l.names, n))
         => /\ pc'[FilterCall] = "w_send"
            /\ Len(loc'[FilterCall].items) = l.i
            /\ \A n \in Names :
                 CountItems(loc'[FilterCall].items, n) = CountName(l.names, n)]_vars

\* C33: after the first round of withdraw calls (at most three, up to the
\* first success), an inventory fetched without all the purchased items leads
\* to one more withdraw call and a second fetch before the items are matched:
\* the first fetch that answers sends the call on to the offer or to that
\* further withdraw, and the rounds of withdraw calls are bounded
C33_WithdrawRetried ==
  /\ [](\A m \in Merchants :
          pc[m] = "b_withdraw" => loc[m].phase \in {1, 2} /\ loc[m].k \in 1..3)
  /\ [][\A m \in Merchants :
          (pc[m] = "b_inv" /\ loc[m].phase = 1 /\ restarts' = restarts
           /\ pc'[m] \notin {"b_inv", "b_inv_reconnect", "hung"})
            => pc'[m] \in {"w_send", "b_withdraw"}]_vars

\* C34: after a sourcing shortfall, the items that _listAgainItems puts up for
\* sale all carry one of the requested names of the failed withdrawal that the
\* sourcing has not consumed; no other item of the inventory is listed.
C34_OnlyUnconsumedNamesRelisted ==
  [][\A t \in tasks :
       (t.offer = NULL /\ t.pc = "a_inv" /\ t \notin tasks' /\ listed' # listed)
         => \A x \in listed' : x.name \in Range(t.names)]_vars

\* the names requested by the withdrawals of merchant m that are neither
\* completed, failed nor cancelled
OpenNames(m) ==
  {n \in Names : \E w \in TradeIds :
     /\ trade_withdrawals[w].merchant_steam_id = m
     /\ trade_withdrawals[w].completed_at = NULL
     /\ trade_withdrawals[w].failed_at = NULL
     /\ trade_withdrawals[w].cancelled_at = NULL
     /\ n \in Range(trade_withdrawals[w]._item_names)}

IdleSince(sale) == IF sale.last_updated > 0 THEN sale.last_updated ELSE sale.list_time

\* the sales a run at the time of opskins.timestamp is to edit: idle for an
\* hour and priced otherwise than the external lowest price of their name
DueSales ==
  { j \in 1..Len(opskins.sales) :
      LET sale == opskins.sales[j] IN
        /\ opskins.timestamp - IdleSince(sale) >= 3600
        /\ sale.name \in DOMAIN opskins.priceData
        /\ opskins.priceData[sale.name].price # sale.price }

\* C36: a run of relistOpskinsItems edits exactly the listings (the first 500
\* at most) that have been idle for an hour, counted from the last price change
\* or from the listing time when the price never changed, and whose price
\* differs from the external lowest price; each is set to that price less one.
C36_RelistEditsDueSales ==
  [][(pc[RelistJob] = "idle" /\ pc'[RelistJob] = "r_done")
       => listed' = { [assetid |-> opskins.sales[j].id, name |-> opskins.sales[j].name,
                       via |-> "edit",
                       price |-> opskins.priceData[opskins.sales[j].name].price - 1] :
                      j \in {d \in DueSales : Cardinality({e \in DueSales : e < d}) < editMax} }]_vars

\* C37: the price of an item listed after an acquisition is the cached safe
\* price when the external lowest price is at most 65% of the safe price, and
\* else the lowest price times m rounded up, m being 1.05 when the quantity on
\* sale is 12 or less and 1 otherwise.
C37_ListingPrice ==
  \A l \in listed :
    l.via = "list" =>
      LET op == opskins.priceData[l.name] IN
        IF op.price * 100 <= SafePrice(l.name) * 65
          THEN l.price = SafePrice(l.name)
          ELSE IF op.quantity <= 12
                 THEN /\ l.price * 100 >= op.price * 105
                      /\ (l.price - 1) * 100 < op.price * 105
                 ELSE l.price = op.price

\* an item is listed above the external lowest price, which is not a multiple
\* of 20, with few units on sale, and another at the lowest price
C37_Witness ==
  /\ \E l \in listed :
       /\ l.via = "list" /\ ~Undervalued(l.name)
       /\ opskins.priceData[l.name].quantity <= 12
       /\ opskins.priceData[l.name].price = 301 /\ l.price = 317
  /\ \E l \in listed :
       /\ l.via = "list" /\ ~Undervalued(l.name)
       /\ opskins.priceData[l.name].quantity > 12
       /\ l.price = opskins.priceData[l.name].price

\* the items of the inventory whose name has an external lowest price and a
\* cached safe price
Priceable ==
  { j \in 1..Len(inventory) :
      /\ inventory[j].market_hash_name \in DOMAIN opskins.priceData
      /\ inventory[j].market_hash_name \in DOMAIN getDbCentPrices(opskins.cache).price }

\* C38: when the queries of the listing after an acquisition have answered and
\* the listing limit covers the inventory, the items listed are exactly the
\* items whose name has an external lowest price and a cached safe price: an
\* item without one of them is skipped and the others are still listed.
C38_UnpricedItemsSkipped ==
  [][(pc[ListCall] = "idle" /\ pc'[ListCall] \in {"l_done", "l_threw"}
        /\ opskins.liimt >= Len(inventory))
       => {l.assetid : l \in listed'} = {inventory[j].assetid : j \in Priceable}]_vars

\* C39: after an error of the listener connection the process is eventually
\* subscribed again to both channels, with the handler that starts the
\* workflows attached.
C39_ListenerRecovers ==
  \A m \in Merchants :
    (listener[m].errors > 0 /\ listener[m].pc = "l_connect") ~> (listener[m].pc = "listening")

\* C40: an offer of the marketplace that returns items to the bot (a withdraw
\* offer, the offer of an item of the marketplace inventory, or an active offer
\* of type return) is accepted only when it asks nothing of the bot; with items
\* to give it is declined.
C40_ReturningOffersGiveNothing ==
  \A o \in OfferIds :
    (offers[o].kind \in {"withdraw", "inventory", "return"} /\ offers[o].itemsToGive # {})
      => offers[o].state \in {Active, Declined}

====
